---- MODULE Spec2Model ----
(***************************************************************************)
(* A model of go-on/wrap: the handler chain builder (New, Stack), the      *)
(* wrapper adapters, the per-request context carrier of the package's      *)
(* example (context), and the start-up validation routines.                *)
(*                                                                         *)
(* A request is served in steps: one step runs the body of one             *)
(* http.Handler up to the point where it calls the next handler (every     *)
(* handler of the package calls next as its last statement or not at all). *)
(***************************************************************************)
EXTENDS Integers, Sequences, FiniteSets, TLC

\* ------------------------------------------------------------------ bounds
MaxWrappers == 3      \* longest wrapper list passed to New / Stack
MaxRequests == 2      \* requests served (possibly interleaved) by one handler
MaxNesting  == 2      \* carriers wrapped around one raw sink
MaxCalls    == 2      \* calls of the reclamation helpers in one test
MaxBufferOps == 4     \* calls made on one Buffer
MaxPeekOps == 4       \* calls made on one Peek
MaxBytes == 3         \* bytes written through one EscapeHTML
MaxEscapeWrites == 2   \* calls of Write on one EscapeHTML

Requests == 1..MaxRequests

\* ------------------------------------------------------------ the state
VARIABLES
    DEBUG,      \* the global trace flag
    wrapper,    \* the wrappers the application hands to New / Stack
    inject,     \* the ContextInjecter implementation the application uses
    proto,      \* the application's prototype carrier (ctx := &context{})
    main,       \* start-up: "start", "made", "built", "validated", "panicked"
    h,          \* the handler New / Stack returned
    vw,         \* progress of ValidateWrapperContexts
    valid,      \* what ValidateContextInjecter(inject) did
    debugLog,   \* per request: what DEBUGGER.Debug was called with, in call order
    reqs,       \* per request: status, handler about to run, sink it is given
    recs,       \* per request: the httptest.ResponseRecorder it writes to
    ctxs,       \* per request: the carriers allocated while serving it
    cc,         \* a carrier that is called directly
    ccSink,     \* the sink cc was constructed around
    last,       \* the last direct call on cc and its outcome
    capLog,     \* the capability methods invoked on raw sinks, in call order
    rlast,      \* the last call of a reclamation helper and its outcome
    buf,        \* a Buffer around the recorder of request 1
    blast,      \* the last call on buf, its result, and the recorder before it
    pk,         \* a Peek around the recorder of request 1
    plast,      \* the last call on pk, its results, and what happened since Reset
    elast       \* the last call on an EscapeHTML around the recorder of request 1

appVars == <<DEBUG, wrapper, inject, proto, main, h, vw, valid>>
reqVars == <<debugLog, reqs, recs, ctxs>>
carVars == <<cc, ccSink, last>>
helperVars == <<capLog, rlast>>
bufVars == <<buf, blast>>
peekVars == <<pk, plast>>
escVars == <<elast>>
wrVars == <<helperVars, bufVars, peekVars, escVars>>
vars == <<DEBUG, wrapper, inject, proto, main, h, vw, valid,
          debugLog, reqs, recs, ctxs, cc, ccSink, last, wrVars>>

\* ------------------------------------------------------------- Go values
\* nil of a slice / interface type that is stored as a context value
Nil == "nil"

\* no panic in flight
NoPanic == [err |-> "none"]

\* ---------------------------------------------------------------- sinks
\* A reference to a response sink: the recorder of request r, a carrier
\* (the k-th carrier allocated while serving request r; r = 0 is the
\* prototype carrier of the application), or Go's nil interface.
NilSink == [t |-> "nil", r |-> 0, k |-> 0]
RecRef(r) == [t |-> "rec", r |-> r, k |-> 0]
CtxRef(r, k) == [t |-> "ctx", r |-> r, k |-> k]
ProtoRef == CtxRef(0, 1)

\* httptest.NewRecorder(): code 200, nothing written
NewRecorder == [Code |-> 200, HeaderMap |-> {}, Body |-> << >>,
                Flushed |-> FALSE, wroteHeader |-> FALSE, ops |-> << >>]

\* ResponseRecorder.WriteHeader
rec_WriteHeader(rec, code) ==
    [rec EXCEPT !.Code = IF rec.wroteHeader THEN @ ELSE code,
                !.wroteHeader = TRUE,
                !.ops = Append(@, <<"WriteHeader", code>>)]

\* ResponseRecorder.Write
rec_Write(rec, s) ==
    [rec EXCEPT !.Body = Append(@, s),
                !.wroteHeader = TRUE,
                !.ops = Append(@, <<"Write", s>>)]

\* ResponseRecorder.Header().Set(k, v)
rec_HeaderSet(rec, k, v) ==
    [rec EXCEPT !.HeaderMap = {kv \in @ : kv[1] # k} \cup {<<k, v>>},
                !.ops = Append(@, <<"Header.Set", k, v>>)]

\* ResponseRecorder.Flush
rec_Flush(rec) ==
    [rec EXCEPT !.Flushed = TRUE,
                !.wroteHeader = TRUE,
                !.ops = Append(@, <<"Flush">>)]

\* header.Del(k) and header.Add(k, val) for every key k and value val of
\* the header hdr, on the recorder's Header()
rec_HeaderFlush(rec, hdr) ==
    [rec EXCEPT !.HeaderMap = {kv \in @ : \A c \in hdr : c[1] # kv[1]} \cup hdr,
                !.ops = Append(@, <<"Header", hdr>>)]

\* http.Header.Set(k, v) on a header map
http_Header_Set(hdr, k, v) == {kv \in hdr : kv[1] # k} \cup {<<k, v>>}

\* ---------------------------------------------------------------- Buffer
\* NewBuffer(w)
NewBuffer(w) ==
    [ResponseWriter |-> w, Buffer |-> "", Code |-> 0, changed |-> FALSE, header |-> {}]

\* (bf *Buffer) Header(): the Buffer after the call (it returns bf.header)
Buffer_Header(bf) == [bf EXCEPT !.changed = TRUE]

\* (bf *Buffer) WriteHeader(i)
Buffer_WriteHeader(bf, i) == [bf EXCEPT !.changed = TRUE, !.Code = i]

\* (bf *Buffer) Write(b)
Buffer_Write(bf, b) == [bf EXCEPT !.changed = TRUE, !.Buffer = @ \o b]

\* Reset that keeps the cached status code
Buffer_Reset_keepsCode(bf) ==
    [bf EXCEPT !.Buffer = "", !.changed = FALSE, !.header = {}]

\* (bf *Buffer) Reset()
Buffer_Reset(bf) ==
    [bf EXCEPT !.Buffer = "", !.Code = 0, !.changed = FALSE, !.header = {}]

\* (bf *Buffer) HasChanged()
Buffer_HasChanged(bf) == bf.changed

\* (bf *Buffer) IsOk()
Buffer_IsOk(bf) ==
    IF bf.Code = 0 THEN TRUE
    ELSE IF bf.Code >= 200 /\ bf.Code < 300 THEN TRUE
    ELSE FALSE

\* (bf *Buffer) FlushCode(): the underlying recorder after the call
Buffer_FlushCode(bf, rec) ==
    IF bf.Code # 0 THEN rec_WriteHeader(rec, bf.Code) ELSE rec

\* (bf *Buffer) FlushHeaders(): the underlying recorder after the call
Buffer_FlushHeaders(bf, rec) == rec_HeaderFlush(rec, bf.header)

\* FlushAll writing the body before the headers and the status code
Buffer_FlushAll_bodyFirst(bf, rec) ==
    IF Buffer_HasChanged(bf)
    THEN Buffer_FlushCode(bf, Buffer_FlushHeaders(bf, rec_Write(rec, bf.Buffer)))
    ELSE rec

\* (bf *Buffer) FlushAll(): the underlying recorder after the call
Buffer_FlushAll(bf, rec) ==
    IF Buffer_HasChanged(bf)
    THEN rec_Write(Buffer_FlushCode(bf, Buffer_FlushHeaders(bf, rec)), bf.Buffer)
    ELSE rec

\* ------------------------------------------------------------------ Peek
\* The proceed functions handed to NewPeek: nil, func(*Peek) bool { return
\* true }, { return false }, { return p.IsOk() }, and
\* { p.FlushMissing(); return true }.
ProceedNil == "nil"
Proceeds == {ProceedNil, "true", "false", "IsOk", "FlushMissing"}

\* io.EOF
EOF == "EOF"

ErrBodyFlushedBeforeCode    == [err |-> "ErrBodyFlushedBeforeCode"]
ErrCodeFlushedBeforeHeaders == [err |-> "ErrCodeFlushedBeforeHeaders"]

\* NewPeek(rw, proceed)
NewPeek(rw, proceed) ==
    [Code |-> 0, ResponseWriter |-> rw, changed |-> FALSE, header |-> {},
     writeForbidden |-> FALSE, isChecked |-> FALSE, codeWritten |-> FALSE,
     headersWritten |-> FALSE, bodyWritten |-> FALSE, proceed |-> proceed]

\* (p *Peek) Header(): the Peek after the call (it returns p.header)
Peek_Header(p) == [p EXCEPT !.changed = TRUE]

\* (p *Peek) WriteHeader(i)
Peek_WriteHeader(p, i) == [p EXCEPT !.changed = TRUE, !.Code = i]

\* IsOk that takes 300 for a success
Peek_IsOk_upTo300(p) ==
    IF p.Code = 0 THEN TRUE
    ELSE IF p.Code >= 200 /\ p.Code <= 300 THEN TRUE
    ELSE FALSE

\* (p *Peek) IsOk()
Peek_IsOk(p) ==
    IF p.Code = 0 THEN TRUE
    ELSE IF p.Code >= 200 /\ p.Code < 300 THEN TRUE
    ELSE FALSE

\* (p *Peek) HasChanged()
Peek_HasChanged(p) == p.changed

\* Reset that keeps what proceed decided
Peek_Reset_keepsDecision(p) ==
    [p EXCEPT !.Code = 0, !.header = {}, !.changed = FALSE,
              !.codeWritten = FALSE, !.headersWritten = FALSE,
              !.bodyWritten = FALSE]

\* (p *Peek) Reset()
Peek_Reset(p) ==
    [p EXCEPT !.Code = 0, !.header = {}, !.changed = FALSE,
              !.writeForbidden = FALSE, !.isChecked = FALSE,
              !.codeWritten = FALSE, !.headersWritten = FALSE,
              !.bodyWritten = FALSE]

\* What a method of the Peek did: the Peek and the underlying recorder
\* after the call, and the value it panicked with.
PeekDid(p, rec, panic) == [p |-> p, rec |-> rec, panic |-> panic]

\* FlushCode that does not look at bodyWritten
Peek_FlushCode_afterBody(p, rec) ==
    IF p.codeWritten THEN PeekDid(p, rec, NoPanic)
    ELSE IF p.Code # 0
         THEN PeekDid([p EXCEPT !.codeWritten = TRUE],
                      rec_WriteHeader(rec, p.Code), NoPanic)
         ELSE PeekDid(p, rec, NoPanic)

\* FlushCode that refuses to deliver the status before the cached headers
Peek_FlushCode_strict(p, rec) ==
    IF p.codeWritten THEN PeekDid(p, rec, NoPanic)
    ELSE IF p.bodyWritten THEN PeekDid(p, rec, ErrBodyFlushedBeforeCode)
    ELSE IF p.Code # 0 /\ ~p.headersWritten /\ p.header # {}
         THEN PeekDid(p, rec, ErrCodeFlushedBeforeHeaders)
    ELSE IF p.Code # 0
         THEN PeekDid([p EXCEPT !.codeWritten = TRUE],
                      rec_WriteHeader(rec, p.Code), NoPanic)
         ELSE PeekDid(p, rec, NoPanic)

\* FlushCode that does not latch codeWritten
Peek_FlushCode_repeatable(p, rec) ==
    IF p.bodyWritten THEN PeekDid(p, rec, ErrBodyFlushedBeforeCode)
    ELSE IF p.Code # 0
         THEN PeekDid(p, rec_WriteHeader(rec, p.Code), NoPanic)
         ELSE PeekDid(p, rec, NoPanic)

\* FlushCode that latches codeWritten also when no status is cached
Peek_FlushCode_latchesAlways(p, rec) ==
    IF p.codeWritten THEN PeekDid(p, rec, NoPanic)
    ELSE IF p.bodyWritten THEN PeekDid(p, rec, ErrBodyFlushedBeforeCode)
    ELSE IF p.Code # 0
         THEN PeekDid([p EXCEPT !.codeWritten = TRUE],
                      rec_WriteHeader(rec, p.Code), NoPanic)
         ELSE PeekDid([p EXCEPT !.codeWritten = TRUE], rec, NoPanic)

\* (p *Peek) FlushCode()
Peek_FlushCode(p, rec) ==
    IF p.codeWritten THEN PeekDid(p, rec, NoPanic)
    ELSE IF p.bodyWritten THEN PeekDid(p, rec, ErrBodyFlushedBeforeCode)
    ELSE IF p.Code # 0
         THEN PeekDid([p EXCEPT !.codeWritten = TRUE],
                      rec_WriteHeader(rec, p.Code), NoPanic)
         ELSE PeekDid(p, rec, NoPanic)

\* FlushHeaders that does not look at codeWritten
Peek_FlushHeaders_afterCode(p, rec) ==
    IF p.headersWritten THEN PeekDid(p, rec, NoPanic)
    ELSE IF p.bodyWritten THEN PeekDid(p, rec, ErrBodyFlushedBeforeCode)
    ELSE PeekDid([p EXCEPT !.headersWritten = TRUE],
                 rec_HeaderFlush(rec, p.header), NoPanic)

\* (p *Peek) FlushHeaders()
Peek_FlushHeaders(p, rec) ==
    IF p.headersWritten THEN PeekDid(p, rec, NoPanic)
    ELSE IF p.codeWritten THEN PeekDid(p, rec, ErrCodeFlushedBeforeHeaders)
    ELSE IF p.bodyWritten THEN PeekDid(p, rec, ErrBodyFlushedBeforeCode)
    ELSE PeekDid([p EXCEPT !.headersWritten = TRUE],
                 rec_HeaderFlush(rec, p.header), NoPanic)

\* FlushMissing without its early return
Peek_FlushMissing_always(p, rec) ==
    LET fh == Peek_FlushHeaders(p, rec)
    IN  IF fh.panic # NoPanic THEN fh
        ELSE Peek_FlushCode(fh.p, fh.rec)

\* (p *Peek) FlushMissing()
Peek_FlushMissing(p, rec) ==
    IF p.bodyWritten \/ p.codeWritten THEN PeekDid(p, rec, NoPanic)
    ELSE LET fh == Peek_FlushHeaders(p, rec)
         IN  IF fh.panic # NoPanic THEN fh
             ELSE Peek_FlushCode(fh.p, fh.rec)

\* p.proceed(p): what the call did and the boolean it returned
Peek_proceed(p, rec) ==
    CASE p.proceed = "true"  -> [did |-> PeekDid(p, rec, NoPanic), ret |-> TRUE]
      [] p.proceed = "false" -> [did |-> PeekDid(p, rec, NoPanic), ret |-> FALSE]
      [] p.proceed = "IsOk"  -> [did |-> PeekDid(p, rec, NoPanic), ret |-> Peek_IsOk(p)]
      [] p.proceed = "FlushMissing" ->
            [did |-> Peek_FlushMissing(p, rec), ret |-> TRUE]

\* What a Write did: the Peek and the recorder after it, its results
\* (n, err), how often it called proceed and with which result, and the
\* value it panicked with.
WriteDid(p, rec, n, err, evals, ret) ==
    [p |-> p, rec |-> rec, n |-> n, err |-> err, evals |-> evals, ret |-> ret,
     panic |-> NoPanic]

\* a Write whose call of proceed panicked: line 119 did not complete
WritePanicked(did) ==
    [WriteDid(did.p, did.rec, 0, Nil, 1, FALSE) EXCEPT !.panic = did.panic]

\* a Write that latches bodyWritten and changed before it looks at
\* writeForbidden
Peek_Write_checked_latchesFirst(p, rec, b, evals, ret) ==
    IF p.writeForbidden
    THEN WriteDid([p EXCEPT !.bodyWritten = TRUE, !.changed = TRUE],
                  rec, 0, EOF, evals, ret)
    ELSE WriteDid([p EXCEPT !.bodyWritten = TRUE, !.changed = TRUE],
                  rec_Write(rec, b), Len(b), Nil, evals, ret)

\* the part of Write after the check: lines 123-128
Peek_Write_checked(p, rec, b, evals, ret) ==
    IF p.writeForbidden
    THEN WriteDid(p, rec, 0, EOF, evals, ret)
    ELSE WriteDid([p EXCEPT !.bodyWritten = TRUE, !.changed = TRUE],
                  rec_Write(rec, b), Len(b), Nil, evals, ret)

\* a Write that asks proceed every time
Peek_Write_asksAgain(p, rec, b) ==
    IF p.proceed # ProceedNil
    THEN LET pr == Peek_proceed(p, rec)
         IN  Peek_Write_checked([pr.did.p EXCEPT !.writeForbidden = ~pr.ret,
                                                 !.isChecked = TRUE],
                                pr.did.rec, b, 1, pr.ret)
    ELSE Peek_Write_checked(p, rec, b, 0, TRUE)

\* a Write that forwards the bytes whatever proceed returned
Peek_Write_ignoresProceed(p, rec, b) ==
    IF p.proceed # ProceedNil /\ ~p.isChecked
    THEN LET pr == Peek_proceed(p, rec)
         IN  Peek_Write_checked([pr.did.p EXCEPT !.isChecked = TRUE],
                                pr.did.rec, b, 1, pr.ret)
    ELSE Peek_Write_checked(p, rec, b, 0, TRUE)

\* a Write that keeps the bytes of an allowed write to itself
Peek_Write_swallows(p, rec, b) ==
    IF p.proceed # ProceedNil /\ ~p.isChecked
    THEN LET pr == Peek_proceed(p, rec)
         IN  WriteDid([pr.did.p EXCEPT !.writeForbidden = ~pr.ret,
                                       !.isChecked = TRUE],
                      pr.did.rec, IF pr.ret THEN Len(b) ELSE 0,
                      IF pr.ret THEN Nil ELSE EOF, 1, pr.ret)
    ELSE WriteDid(p, rec, IF p.writeForbidden THEN 0 ELSE Len(b),
                  IF p.writeForbidden THEN EOF ELSE Nil, 0, TRUE)

\* a Write that flushes what is missing before it forwards the first bytes
Peek_Write_autoFlush(p, rec, b) ==
    LET pr == IF p.proceed # ProceedNil /\ ~p.isChecked
              THEN Peek_proceed(p, rec)
              ELSE [did |-> PeekDid(p, rec, NoPanic), ret |-> ~p.writeForbidden]
        ev == IF p.proceed # ProceedNil /\ ~p.isChecked THEN 1 ELSE 0
        q  == [pr.did.p EXCEPT !.writeForbidden = ~pr.ret,
                               !.isChecked = p.proceed # ProceedNil]
        fm == IF pr.ret THEN Peek_FlushMissing(q, pr.did.rec)
              ELSE PeekDid(q, pr.did.rec, NoPanic)
    IN  Peek_Write_checked(fm.p, fm.rec, b, ev, pr.ret)

\* (p *Peek) Write(b)
Peek_Write(p, rec, b) ==
    IF p.proceed # ProceedNil /\ ~p.isChecked
    THEN LET pr == Peek_proceed(p, rec)
         IN  IF pr.did.panic # NoPanic THEN WritePanicked(pr.did)
             ELSE Peek_Write_checked([pr.did.p EXCEPT !.writeForbidden = ~pr.ret,
                                                      !.isChecked = TRUE],
                                     pr.did.rec, b, 1, pr.ret)
    ELSE Peek_Write_checked(p, rec, b, 0, TRUE)

\* ------------------------------------------------------------ EscapeHTML
\* &EscapeHTML{rw}
EscapeHTML(rw) == [ResponseWriter |-> rw]

\* the bytes of & ' " < > and of their replacements &amp; &#39; &#34;
\* &lt; &gt;
ampOrig      == 38
ampRepl      == <<38, 97, 109, 112, 59>>
sgQuoteOrig  == 39
sgQuoteRepl  == <<38, 35, 51, 57, 59>>
dblQuoteOrig == 34
dblQuoteRepl == <<38, 35, 51, 52, 59>>
ltQuoteOrig  == 60
ltQuoteRepl  == <<38, 108, 116, 59>>
gtQuoteOrig  == 62
gtQuoteRepl  == <<38, 103, 116, 59>>

\* utf8.RuneError
RuneError == 65533

\* utf8.DecodeRune(p) for a non-empty p that holds no lead byte of a
\* three- or four-byte encoding: the rune and its width in bytes. A byte
\* below 0x80 is its own rune; a lead byte 0xC2..0xDF followed by a
\* continuation byte 0x80..0xBF encodes a rune in two bytes; any other
\* byte is invalid and decodes to (RuneError, 1).
DecodeRune(p) ==
    IF p[1] < 128 THEN [r |-> p[1], width |-> 1]
    ELSE IF p[1] >= 194 /\ p[1] <= 223 /\ Len(p) >= 2 /\ p[2] >= 128 /\ p[2] <= 191
         THEN [r |-> (p[1] - 192) * 64 + (p[2] - 128), width |-> 2]
         ELSE [r |-> RuneError, width |-> 1]

\* a switch with a case utf8.RuneError that writes the bytes of U+FFFD
EscapeOf_replacesInvalid(r) ==
    CASE r = ampOrig      -> ampRepl
      [] r = sgQuoteOrig  -> sgQuoteRepl
      [] r = dblQuoteOrig -> dblQuoteRepl
      [] r = ltQuoteOrig  -> ltQuoteRepl
      [] r = gtQuoteOrig  -> gtQuoteRepl
      [] r = RuneError    -> <<239, 191, 189>>
      [] OTHER            -> << >>

\* the switch of Write: the replacement of rune r, << >> in the default case
EscapeOf(r) ==
    CASE r = ampOrig      -> ampRepl
      [] r = sgQuoteOrig  -> sgQuoteRepl
      [] r = dblQuoteOrig -> dblQuoteRepl
      [] r = ltQuoteOrig  -> ltQuoteRepl
      [] r = gtQuoteOrig  -> gtQuoteRepl
      [] OTHER            -> << >>

\* The loop of Write from byte i on (i and lst, the variable last of the
\* source, count from 1), and the
\* final e.ResponseWriter.Write(b[last:]): the recorder after it.
RECURSIVE EscapeHTML_WriteLoop(_, _, _, _)
EscapeHTML_WriteLoop(b, i, lst, rec) ==
    IF i > Len(b) THEN rec_Write(rec, SubSeq(b, lst, Len(b)))
    ELSE LET d == DecodeRune(SubSeq(b, i, Len(b)))
             esc == EscapeOf(d.r)
         IN  IF esc = << >>
             THEN EscapeHTML_WriteLoop(b, i + d.width, lst, rec)
             ELSE EscapeHTML_WriteLoop(b, i + d.width, i + d.width,
                      rec_Write(rec_Write(rec, SubSeq(b, lst, i - 1)), esc))

\* Write that sends the bytes behind the last special character nowhere
EscapeHTML_Write_dropsTail(e, rec, b) ==
    LET r == EscapeHTML_WriteLoop(b, 1, 1, rec)
    IN  [rec |-> [r EXCEPT !.Body = SubSeq(@, 1, Len(@) - 1),
                           !.ops = SubSeq(@, 1, Len(@) - 1)],
         num |-> 0, err |-> Nil]

\* (e *EscapeHTML) Write(b): the recorder after the call and its results
EscapeHTML_Write(e, rec, b) ==
    [rec |-> EscapeHTML_WriteLoop(b, 1, 1, rec), num |-> 0, err |-> Nil]

\* ---------------------------------------------------------------- types
\* A Go type as fmt's %T and a type switch see it: the import path and the
\* package name are different things, %T prints only the package name.
GoType(path, pkg, name, ptr) == [path |-> path, pkg |-> pkg, name |-> name, ptr |-> ptr]

PtrResponseWriter   == GoType("net/http", "http", "ResponseWriter", TRUE)
PtrUserIP           == GoType("github.com/go-on/wrap", "wrap", "userIP", TRUE)
PtrError            == GoType("", "", "error", TRUE)
\* *contextUnsupported, the probe type of the validation
PtrContextUnsupported == GoType("github.com/go-on/wrap", "wrap", "contextUnsupported", TRUE)
\* the probe's element type, and a type of another package that is also
\* called wrap.contextUnsupported
ContextUnsupported  == GoType("github.com/go-on/wrap", "wrap", "contextUnsupported", FALSE)
PtrHomonym          == GoType("example.org/vendor/wrap", "wrap", "contextUnsupported", TRUE)
NilType             == GoType("", "", "<nil>", FALSE)

\* fmt.Sprintf("%T", x) for a value of dynamic type ty
SprintfT(ty) ==
    IF ty = NilType THEN <<"<nil>">>
    ELSE <<IF ty.ptr THEN "*" ELSE "", ty.pkg, ".", ty.name>>

\* a pointer handed to Context / SetContext: its type and its pointee
CtxPtr(ty, val) == [type |-> ty, val |-> val]

\* --------------------------------------------------- carrier (Contexter)
\* What a ContextInjecter implementation does.  TheContext is the carrier of
\* the package (type context); the other members of Injecters deviate from
\* it in one respect each and are the implementations that
\* ValidateContextInjecter is written to reject.
\*   callsNext  Wrap's handler calls next
\*   passes     what it hands to next: a fresh carrier around the sink
\*              ("carrier"), or the sink itself ("raw")
\*   rwSlot     Context(*http.ResponseWriter): the wrapped sink ("wrapped"),
\*              found = false ("notfound"), some other recorder ("other"),
\*              or the carrier itself ("self")
\*   gets/sets  the value types the type switches of Context / SetContext
\*              have a case for
\*   getter/setter  the default case: the panic value's type and the type of
\*              the value it carries, or "none" when it does not panic
Raises(err, carries) == [err |-> err, carries |-> carries]
NoRaise == Raises("none", "none")

TheContext ==
    [callsNext |-> TRUE, passes |-> "carrier", rwSlot |-> "wrapped",
     gets |-> {PtrUserIP, PtrError}, sets |-> {PtrUserIP, PtrError},
     getter |-> Raises("ErrUnsupportedContextGetter", "ctxPtr"),
     setter |-> Raises("ErrUnsupportedContextSetter", "ctxPtr")]

\* a sink that is neither the recorder of a request nor a carrier
OtherSink == [t |-> "rec", r |-> 0, k |-> 0]

\* &context{ResponseWriter: rw}
NewContext(impl, rw) == [impl |-> impl, ResponseWriter |-> rw, userIP |-> Nil, err |-> Nil]

\* the dynamic type of the value a panic of the default case carries
CarriedType(carries, ctxPtr) ==
    CASE carries = "ctxPtr"  -> ctxPtr.type
      [] carries = "elem"    -> [ctxPtr.type EXCEPT !.ptr = FALSE]
      [] carries = "homonym" -> [ctxPtr.type EXCEPT !.path = "example.org/vendor/wrap"]
      [] carries = "userIP"  -> PtrUserIP
      [] OTHER               -> NilType

\* a default case that returns instead of panicking
DefaultCase_silent(raises, ctxPtr) == NoPanic

\* the default case of a type switch: panic(&Err...{ctxPtr})
DefaultCase(raises, ctxPtr) ==
    IF raises.err = "none" THEN NoPanic
    ELSE [err |-> raises.err, Type |-> CarriedType(raises.carries, ctxPtr)]

\* Context assigning the empty slot to the pointee before it returns false
Context_assignsNil(c, ctxPtr) ==
    LET ret(found, out) == [found |-> found, out |-> out, panic |-> NoPanic] IN
    CASE ctxPtr.type = PtrResponseWriter ->
           CASE c.impl.rwSlot = "wrapped"  -> ret(TRUE, c.ResponseWriter)
             [] c.impl.rwSlot = "notfound" -> ret(FALSE, ctxPtr.val)
             [] c.impl.rwSlot = "self"     -> ret(TRUE, CtxRef(0, 2))
             [] OTHER                      -> ret(TRUE, OtherSink)
      [] ctxPtr.type = PtrUserIP /\ PtrUserIP \in c.impl.gets ->
           ret(c.userIP # Nil, c.userIP)
      [] ctxPtr.type = PtrError /\ PtrError \in c.impl.gets ->
           ret(c.err # Nil, c.err)
      [] OTHER ->
           [found |-> TRUE, out |-> ctxPtr.val,
            panic |-> DefaultCase(c.impl.getter, ctxPtr)]

\* (c *context) Context(ctxPtr) (found bool): the result, the pointee after
\* the call, and the panic of the default case
Context(c, ctxPtr) ==
    LET ret(found, out) == [found |-> found, out |-> out, panic |-> NoPanic] IN
    CASE ctxPtr.type = PtrResponseWriter ->
           CASE c.impl.rwSlot = "wrapped"  -> ret(TRUE, c.ResponseWriter)
             [] c.impl.rwSlot = "notfound" -> ret(FALSE, ctxPtr.val)
             [] c.impl.rwSlot = "self"     -> ret(TRUE, CtxRef(0, 2))
             [] OTHER                      -> ret(TRUE, OtherSink)
      [] ctxPtr.type = PtrUserIP /\ PtrUserIP \in c.impl.gets ->
           IF c.userIP = Nil THEN ret(FALSE, ctxPtr.val) ELSE ret(TRUE, c.userIP)
      [] ctxPtr.type = PtrError /\ PtrError \in c.impl.gets ->
           IF c.err = Nil THEN ret(FALSE, ctxPtr.val) ELSE ret(TRUE, c.err)
      [] OTHER ->
           [found |-> TRUE, out |-> ctxPtr.val,
            panic |-> DefaultCase(c.impl.getter, ctxPtr)]

\* SetContext with the assignments of its cases left out
SetContext_noStore(c, ctxPtr) ==
    IF ctxPtr.type \in c.impl.sets THEN [c |-> c, panic |-> NoPanic]
    ELSE [c |-> c, panic |-> DefaultCase(c.impl.setter, ctxPtr)]

\* SetContext with a case *http.ResponseWriter that replaces the wrapped sink
SetContext_setsWriter(c, ctxPtr) ==
    CASE ctxPtr.type = PtrResponseWriter ->
           [c |-> [c EXCEPT !.ResponseWriter = ctxPtr.val], panic |-> NoPanic]
      [] ctxPtr.type = PtrUserIP /\ PtrUserIP \in c.impl.sets ->
           [c |-> [c EXCEPT !.userIP = ctxPtr.val], panic |-> NoPanic]
      [] ctxPtr.type = PtrError /\ PtrError \in c.impl.sets ->
           [c |-> [c EXCEPT !.err = ctxPtr.val], panic |-> NoPanic]
      [] OTHER ->
           [c |-> c, panic |-> DefaultCase(c.impl.setter, ctxPtr)]

\* (c *context) SetContext(ctxPtr): the carrier after the call and the panic
\* of the default case
SetContext(c, ctxPtr) ==
    CASE ctxPtr.type = PtrUserIP /\ PtrUserIP \in c.impl.sets ->
           [c |-> [c EXCEPT !.userIP = ctxPtr.val], panic |-> NoPanic]
      [] ctxPtr.type = PtrError /\ PtrError \in c.impl.sets ->
           [c |-> [c EXCEPT !.err = ctxPtr.val], panic |-> NoPanic]
      [] OTHER ->
           [c |-> c, panic |-> DefaultCase(c.impl.setter, ctxPtr)]

\* ------------------------------------------------------------- wrappers
asHandler         == "http.Handler"
asHandlerFunc     == "http.HandlerFunc"
asNextHandler     == "NextHandler"
asNextHandlerFunc == "NextHandlerFunc"
asWrapper         == "Wrapper"

\* the terminal handler
NoOp == [t |-> "NoOp"]

\* write(s) used as a plain http.Handler: sets a header, writes s, returns
write(s) == [t |-> "write", s |-> s]

\* A NextHandlerFunc value.  from tells which adapter made the closure, obj
\* is the handler it closes over, dbg the value DEBUG had when it was made.
NextHandlerFunc(from, obj, dbg) == [kind |-> "NextHandlerFunc", from |-> from, obj |-> obj, dbg |-> dbg]

\* Handler(h)
Handler(hh, debug) == NextHandlerFunc("Handler", hh, debug)

\* HandlerFunc(fn)
HandlerFunc(fn, debug) == NextHandlerFunc("HandlerFunc", fn, debug)

\* NextHandler(sh)
NextHandler(sh, debug) == NextHandlerFunc("NextHandler", sh, debug)

\* wrappers that implement Wrap themselves
writeWrapper(s)     == [kind |-> "write", s |-> s]
writeStop(s)        == [kind |-> "writeStop", s |-> s]
WrapperFunc(w)      == [kind |-> "WrapperFunc", wf |-> w]
setUserIP           == [kind |-> "setUserIP"]
handleError         == [kind |-> "handleError"]
app                 == [kind |-> "app"]
injecter(impl)      == [kind |-> "context", impl |-> impl]

\* &debug{Object, Role, Handler}
debug(Object, Role, hh) == [t |-> "debug", Object |-> Object, Role |-> Role, Handler |-> hh]

\* (f NextHandlerFunc) Wrap(next)
NextHandlerFunc_Wrap(f, next, DEBUGflag) ==
    LET fn == [t |-> "fn", f |-> f, next |-> next] IN
    IF DEBUGflag THEN debug(f, asNextHandlerFunc, fn) ELSE fn

\* w.Wrap(next) for each kind of wrapper
RECURSIVE Wrap(_, _, _)
Wrap(w, next, DEBUGflag) ==
    CASE w.kind = "NextHandlerFunc" -> NextHandlerFunc_Wrap(w, next, DEBUGflag)
      [] w.kind = "WrapperFunc"     -> Wrap(w.wf, next, DEBUGflag)
      [] w.kind = "write"           -> [t |-> "write.Wrap", s |-> w.s, next |-> next]
      [] w.kind = "writeStop"       -> [t |-> "writeStop.Wrap", s |-> w.s]
      [] w.kind = "context"         -> [t |-> "context.Wrap", impl |-> w.impl, next |-> next]
      [] w.kind = "setUserIP"       -> [t |-> "setUserIP.Wrap", next |-> next]
      [] w.kind = "handleError"     -> [t |-> "handleError.Wrap", next |-> next]
      [] w.kind = "app"             -> [t |-> "app.Wrap"]

\* _debug(wrapper...): h = NoOp; for i := len-1 .. 0 { h = &debug{w[i], "Wrapper", w[i].Wrap(h)} }
RECURSIVE debugLoop(_, _, _)
debugLoop(ws, i, hh) ==
    IF i < 1 THEN hh
    ELSE debugLoop(ws, i - 1, debug(ws[i], asWrapper, Wrap(ws[i], hh, TRUE)))

\* _debug leaving the handler of the last wrapper without its debug struct
_debug_skipsLast(ws) ==
    IF ws = << >> THEN NoOp
    ELSE debugLoop(ws, Len(ws) - 1, Wrap(ws[Len(ws)], NoOp, TRUE))

_debug(ws) == debugLoop(ws, Len(ws), NoOp)

\* New(wrapper...): h = NoOp; for i := len-1 .. 0 { h = w[i].Wrap(h) }
RECURSIVE NewLoop(_, _, _)
NewLoop(ws, i, hh) ==
    IF i < 1 THEN hh
    ELSE NewLoop(ws, i - 1, Wrap(ws[i], hh, FALSE))

\* New with its loop running upwards: the last wrapper ends up outermost
RECURSIVE NewLoopUp(_, _, _)
NewLoopUp(ws, i, hh) ==
    IF i > Len(ws) THEN hh
    ELSE NewLoopUp(ws, i + 1, Wrap(ws[i], hh, FALSE))

New_ascending(ws, DEBUGflag) ==
    IF DEBUGflag THEN _debug(ws) ELSE NewLoopUp(ws, 1, NoOp)

New(ws, DEBUGflag) ==
    IF DEBUGflag THEN _debug(ws) ELSE NewLoop(ws, Len(ws), NoOp)

\* ---------------------------------------------------------- validation
\* the recorder a validation probe serves into
ProbeRec == [t |-> "rec", r |-> 0, k |-> 1]

\* (c context) Wrap passing on the one carrier it was called on, with the
\* sink replaced, instead of a new carrier
context_Wrap_shared(impl, rw, fresh) ==
    [called |-> impl.callsNext,
     rw     |-> IF impl.callsNext /\ impl.passes = "carrier" THEN ProtoRef ELSE rw,
     c      |-> [proto EXCEPT !.impl = impl, !.ResponseWriter = rw]]

\* (c context) Wrap handing next a copy of its receiver with the sink
\* replaced: cp := c; cp.ResponseWriter = rw; next.ServeHTTP(&cp, req)
context_Wrap_copiesReceiver(impl, rw, fresh) ==
    LET cp == [proto EXCEPT !.impl = impl, !.ResponseWriter = rw] IN
    IF ~impl.callsNext THEN [called |-> FALSE, rw |-> rw, c |-> cp]
    ELSE IF impl.passes = "carrier"
         THEN [called |-> TRUE, rw |-> fresh, c |-> cp]
         ELSE [called |-> TRUE, rw |-> rw, c |-> cp]

\* The handler of (c context) Wrap, served with sink rw: whether it calls
\* next, and if so the sink it passes on: &context{ResponseWriter: rw},
\* allocated at the reference fresh.
context_Wrap(impl, rw, fresh) ==
    IF ~impl.callsNext THEN [called |-> FALSE, rw |-> rw, c |-> NewContext(impl, rw)]
    ELSE IF impl.passes = "carrier"
         THEN [called |-> TRUE, rw |-> fresh, c |-> NewContext(impl, rw)]
         ELSE [called |-> TRUE, rw |-> rw, c |-> NewContext(impl, rw)]

\* validateContextInjecterSupportsResponseWriter(inject): the panic message,
\* or "none" when it returns
validateContextInjecterSupportsResponseWriter(inj) ==
    LET s  == context_Wrap(inj, ProbeRec, CtxRef(0, 2))
        g  == Context(s.c, CtxPtr(PtrResponseWriter, NilSink)) IN
    IF ~s.called THEN "Wrap() does not call the next http.Handler"
    ELSE IF s.rw.t # "ctx" THEN "interface conversion: not a wrap.Contexter"
    ELSE IF ~g.found THEN "Context() does not support *http.ResponseWriter"
    ELSE IF g.out.t # "rec" THEN "Context() does not return the wrapped *http.ResponseWriter"
    ELSE IF g.out # ProbeRec THEN "Context() does not return the wrapped *http.ResponseWriter"
    ELSE "none"

\* what the deferred recover of the two probes makes of a panic value p that
\* should be a pointer to the error type want
Recovered(p, want) ==
    [panicked     |-> p # NoPanic,
     correctError |-> p # NoPanic /\ p.err = want,
     correctType  |-> /\ p # NoPanic
                      /\ p.err = want
                      /\ SprintfT(p.Type) = SprintfT(PtrContextUnsupported)]

\* validatecontextInjecterUnsupportedGetter(inject)
validatecontextInjecterUnsupportedGetter(inj) ==
    LET s == context_Wrap(inj, ProbeRec, CtxRef(0, 2)) IN
    IF ~s.called THEN Recovered(NoPanic, "ErrUnsupportedContextGetter")
    ELSE IF s.rw.t # "ctx" THEN Recovered([err |-> "runtime.TypeAssertionError"], "ErrUnsupportedContextGetter")
    ELSE Recovered(Context(s.c, CtxPtr(PtrContextUnsupported, "0")).panic, "ErrUnsupportedContextGetter")

\* the setter probe expecting the error type of the getter
validatecontextInjecterUnsupportedSetter_wantsGetter(inj) ==
    LET s == context_Wrap(inj, ProbeRec, CtxRef(0, 2)) IN
    IF ~s.called THEN Recovered(NoPanic, "ErrUnsupportedContextGetter")
    ELSE IF s.rw.t # "ctx" THEN Recovered([err |-> "runtime.TypeAssertionError"], "ErrUnsupportedContextGetter")
    ELSE Recovered(SetContext(s.c, CtxPtr(PtrContextUnsupported, "4")).panic, "ErrUnsupportedContextGetter")

\* validatecontextInjecterUnsupportedSetter(inject)
validatecontextInjecterUnsupportedSetter(inj) ==
    LET s == context_Wrap(inj, ProbeRec, CtxRef(0, 2)) IN
    IF ~s.called THEN Recovered(NoPanic, "ErrUnsupportedContextSetter")
    ELSE IF s.rw.t # "ctx" THEN Recovered([err |-> "runtime.TypeAssertionError"], "ErrUnsupportedContextSetter")
    ELSE Recovered(SetContext(s.c, CtxPtr(PtrContextUnsupported, "4")).panic, "ErrUnsupportedContextSetter")

Returned(v)  == [panic |-> "none", ret |-> v]
Panicked(msg) == [panic |-> msg, ret |-> FALSE]

\* ValidateContextInjecter(inject): the panic it raises, or the value it returns
ValidateContextInjecter(inj) ==
    LET rw == validateContextInjecterSupportsResponseWriter(inj)
        g  == validatecontextInjecterUnsupportedGetter(inj)
        st == validatecontextInjecterUnsupportedSetter(inj) IN
    IF rw # "none" THEN Panicked(rw)
    ELSE IF ~g.panicked THEN Panicked("Context() does not panic for unknown types")
    ELSE IF ~g.correctError THEN Panicked("Context() panic does not panic with *ErrUnsupportedContextGetter")
    ELSE IF ~g.correctType THEN Panicked("Context() panic does set *ErrUnsupportedContextGetter with correct type")
    ELSE IF ~st.panicked THEN Panicked("SetContext() does not panic for unknown types")
    ELSE IF ~st.correctError THEN Panicked("SetContext() panic does not panic with *ErrUnsupportedContextSetter")
    ELSE IF ~st.correctType THEN Panicked("SetContext() panic does set *ErrUnsupportedContextSetter with correct type")
    ELSE Returned(TRUE)

\* wr.(ContextWrapper) succeeds
IsContextWrapper(w) == w.kind \in {"setUserIP", "handleError", "app"}

\* val.ValidateContext(ctx) for the three middlewares of the example: the
\* carrier after the call and the panic that ended it
ValidateContext(w, c) ==
    CASE w.kind = "setUserIP" ->
           LET a == SetContext(c, CtxPtr(PtrUserIP, Nil)) IN
           IF a.panic # NoPanic THEN a ELSE SetContext(a.c, CtxPtr(PtrError, Nil))
      [] w.kind = "handleError" ->
           [c |-> c, panic |-> Context(c, CtxPtr(PtrError, Nil)).panic]
      [] w.kind = "app" ->
           [c |-> c, panic |-> Context(c, CtxPtr(PtrUserIP, Nil)).panic]

\* Stack without its call of ValidateContextInjecter
Stack_unvalidated(inj, ws, DEBUGflag) ==
    [panic |-> "none", h |-> New(<<injecter(inj)>> \o ws, DEBUGflag)]

\* Stack(inject, wrapper...): the panic of the validation, or the handler
Stack(inj, ws, DEBUGflag) ==
    LET v == ValidateContextInjecter(inj) IN
    IF v.panic # "none" THEN [panic |-> v.panic, h |-> NoOp]
    ELSE [panic |-> "none", h |-> New(<<injecter(inj)>> \o ws, DEBUGflag)]

\* ---------------------------------------------------------- request data
RemoteAddrs == {"garbage", "127.0.0.1:45643"}

\* ipfromRequest(req): (ip, err)
ipfromRequest(addr) ==
    IF addr = "127.0.0.1:45643"
    THEN [ip |-> "127.0.0.1", err |-> Nil]
    ELSE [ip |-> Nil, err |-> "userip: \"" \o addr \o "\" is not IP:port"]

\* net.IP(uIP).String()
IPString(uIP) == IF uIP = Nil THEN "<nil>" ELSE uIP

IdleReq == [st |-> "idle", h |-> NoOp, rw |-> NilSink, addr |-> "garbage", ran |-> << >>,
            flag |-> FALSE]

\* the carrier a sink reference points to
CarrierAt(ref) == IF ref.r = 0 THEN proto ELSE ctxs[ref.r][ref.k]

\* rw.(Contexter) succeeds
IsContexter(ref) == ref.t = "ctx"

\* The recorder that the ResponseWriter methods promoted through embedded
\* carriers finally reach.
RECURSIVE Underlying(_)
Underlying(ref) == IF ref.t = "ctx" THEN Underlying(CarrierAt(ref).ResponseWriter) ELSE ref

\* ReclaimResponseWriter without the lookup of the sink slot
ReclaimResponseWriter_identity(rw) == rw

\* ReclaimResponseWriter unwrapping carriers until it reaches a raw sink
ReclaimResponseWriter_recursive(rw) == Underlying(rw)

\* ReclaimResponseWriter(rw)
ReclaimResponseWriter(rw) ==
    IF ~IsContexter(rw) THEN rw
    ELSE Context(CarrierAt(rw), CtxPtr(PtrResponseWriter, NilSink)).out

\* The raw sinks of the tests: each has the ResponseWriter methods and at
\* most one further capability.
FlushingRW    == [t |-> "flushingRW", r |-> 1, k |-> 0]
HijackerRW    == [t |-> "hijackerRW", r |-> 1, k |-> 0]
CloseNotifyRW == [t |-> "closeNotifyRW", r |-> 1, k |-> 0]
NoHTTPWriter  == [t |-> "noHTTPWriter", r |-> 1, k |-> 0]
RawSinks == {FlushingRW, HijackerRW, CloseNotifyRW, NoHTTPWriter}

\* w.(http.Flusher) succeeds: a recorder is one, a carrier is not
IsFlusher(ref) == ref.t \in {"rec", "flushingRW"}

\* w.(http.Hijacker) succeeds
IsHijacker(ref) == ref.t = "hijackerRW"

\* w.(http.CloseNotifier) succeeds
IsCloseNotifier(ref) == ref.t = "closeNotifyRW"

\* Flush calling Flush without the type assertion to http.Flusher
Flush_unchecked(rw) == [w |-> ReclaimResponseWriter(rw), ok |-> TRUE]

\* Flush(rw): the sink whose Flush is called and ok
Flush(rw) ==
    LET w == ReclaimResponseWriter(rw) IN
    IF IsFlusher(w) THEN [w |-> w, ok |-> TRUE] ELSE [w |-> NilSink, ok |-> FALSE]

\* Hijack(rw): the sink whose Hijack is called and ok
Hijack(rw) ==
    LET w == ReclaimResponseWriter(rw) IN
    IF IsHijacker(w) THEN [w |-> w, ok |-> TRUE] ELSE [w |-> NilSink, ok |-> FALSE]

\* CloseNotify(rw): the sink whose CloseNotify is called and ok
CloseNotify(rw) ==
    LET w == ReclaimResponseWriter(rw) IN
    IF IsCloseNotifier(w) THEN [w |-> w, ok |-> TRUE] ELSE [w |-> NilSink, ok |-> FALSE]

\* ------------------------------------- Context / SetContext of the wrappers
\* x.(Contexter) for a sink x that is no Contexter
ErrNotContexter == [err |-> "interface conversion: not a wrap.Contexter"]

\* bf.ResponseWriter.(Contexter).Context(ctxPtr), c being the carrier
\* bf.ResponseWriter refers to: the Buffer after the call and what Context
\* of the carrier returned
Buffer_Context(bf, c, ctxPtr) ==
    IF IsContexter(bf.ResponseWriter)
    THEN [w |-> bf, res |-> Context(c, ctxPtr)]
    ELSE [w |-> bf, res |-> [found |-> FALSE, out |-> ctxPtr.val, panic |-> ErrNotContexter]]

\* SetContext that keeps the value in the Buffer
Buffer_SetContext_ownSlot(bf, c, ctxPtr) ==
    [w |-> [bf EXCEPT !.header = @ \cup {<<"context", ctxPtr.val>>}],
     res |-> [c |-> c, panic |-> NoPanic]]

\* bf.ResponseWriter.(Contexter).SetContext(ctxPtr): the Buffer after the
\* call and what SetContext of the carrier did
Buffer_SetContext(bf, c, ctxPtr) ==
    IF IsContexter(bf.ResponseWriter)
    THEN [w |-> bf, res |-> SetContext(c, ctxPtr)]
    ELSE [w |-> bf, res |-> [c |-> c, panic |-> ErrNotContexter]]

\* (p *Peek) Context(ctxPtr)
Peek_Context(p, c, ctxPtr) ==
    IF IsContexter(p.ResponseWriter)
    THEN [w |-> p, res |-> Context(c, ctxPtr)]
    ELSE [w |-> p, res |-> [found |-> FALSE, out |-> ctxPtr.val, panic |-> ErrNotContexter]]

\* (p *Peek) SetContext(ctxPtr)
Peek_SetContext(p, c, ctxPtr) ==
    IF IsContexter(p.ResponseWriter)
    THEN [w |-> p, res |-> SetContext(c, ctxPtr)]
    ELSE [w |-> p, res |-> [c |-> c, panic |-> ErrNotContexter]]

\* (e *EscapeHTML) Context(ctxPtr)
EscapeHTML_Context(e, c, ctxPtr) ==
    IF IsContexter(e.ResponseWriter)
    THEN [w |-> e, res |-> Context(c, ctxPtr)]
    ELSE [w |-> e, res |-> [found |-> FALSE, out |-> ctxPtr.val, panic |-> ErrNotContexter]]

\* (e *EscapeHTML) SetContext(ctxPtr)
EscapeHTML_SetContext(e, c, ctxPtr) ==
    IF IsContexter(e.ResponseWriter)
    THEN [w |-> e, res |-> SetContext(c, ctxPtr)]
    ELSE [w |-> e, res |-> [c |-> c, panic |-> ErrNotContexter]]

\* ------------------------------------------------------------- start-up
\* The wrappers of the package and of its tests that write to the sink.
Writers(dbg) ==
    { writeWrapper("a"), writeStop("b"),
      WrapperFunc(writeWrapper("c")),
      Handler(write("b"), dbg), HandlerFunc(write("c"), dbg),
      NextHandler(write("a"), dbg) }

\* The wrappers of the context example.
CtxWrappers == { setUserIP, handleError, app, injecter(TheContext) }

\* a carrier like context that has no userIP slot
ErrOnlyContext == [TheContext EXCEPT !.gets = {PtrError}, !.sets = {PtrError}]

\* The ContextInjecter implementations an application may hand to Stack.
StackInjecters ==
    { TheContext, ErrOnlyContext,
      [TheContext EXCEPT !.callsNext = FALSE],
      [TheContext EXCEPT !.passes = "raw"],
      [TheContext EXCEPT !.getter = NoRaise] }

RaisesSet ==
    {NoRaise} \cup
    { Raises(e, c) : e \in {"ErrUnsupportedContextGetter", "ErrUnsupportedContextSetter", "string"},
                     c \in {"ctxPtr", "elem", "homonym", "userIP", "nil"} }

\* The ContextInjecter implementations ValidateContextInjecter is tried on.
Injecters ==
    [callsNext : BOOLEAN, passes : {"carrier", "raw"},
     rwSlot : {"wrapped", "notfound", "other", "self"},
     gets : {{PtrUserIP, PtrError}, {PtrError}}, sets : {{PtrUserIP, PtrError}},
     getter : RaisesSet, setter : RaisesSet]

RECURSIVE SeqsUpTo(_, _)
SeqsUpTo(S, n) ==
    IF n = 0 THEN { << >> }
    ELSE LET shorter == SeqsUpTo(S, n - 1) IN
         shorter \cup { Append(q, x) : q \in {p \in shorter : Len(p) = n - 1}, x \in S }

NoCall == [op |-> "none"]

\* no method of the Buffer was called yet
NoBufferCall ==
    [op |-> "none", n |-> 0, ok |-> FALSE, before |-> NewRecorder,
     flushed |-> FALSE, mark |-> NewRecorder]

\* no method of the Peek was called yet
NoPeekCall ==
    [op |-> "none", prev |-> "none", n |-> 0, arg |-> "", ok |-> FALSE,
     res |-> [n |-> 0, err |-> Nil], panic |-> NoPanic, before |-> NewRecorder,
     was |-> NewPeek(RecRef(1), ProceedNil), given |-> << >>,
     since |-> [evals |-> 0, writes |-> 0, fwd |-> 0, fwdAtEval |-> 0,
                decision |-> "none", mark |-> 0]]

\* no method of the EscapeHTML was called yet
NoEscapeCall ==
    [op |-> "none", n |-> 0, arg |-> << >>, given |-> << >>,
     before |-> NewRecorder, num |-> 0, err |-> Nil]

\* no reclamation helper was called yet
NoHelperCall == [op |-> "none", n |-> 0]

\* the state of the sinks the tests of the response writers work on
InitWr ==
    /\ capLog = << >>
    /\ rlast = NoHelperCall
    /\ buf = NewBuffer(RecRef(1))
    /\ blast = NoBufferCall
    /\ pk = NewPeek(RecRef(1), ProceedNil)
    /\ plast = NoPeekCall
    /\ elast = NoEscapeCall

Init ==
    /\ DEBUG = FALSE
    /\ wrapper = << >>
    /\ inject = TheContext
    /\ proto = NewContext(TheContext, NilSink)
    /\ main = "start"
    /\ h = NoOp
    /\ vw = [st |-> "idle", i |-> 1, log |-> << >>]
    /\ valid = [panic |-> "none", ret |-> FALSE]
    /\ debugLog = [r \in Requests |-> << >>]
    /\ reqs = [r \in Requests |-> IdleReq]
    /\ recs = [r \in Requests |-> NewRecorder]
    /\ ctxs = [r \in Requests |-> << >>]
    /\ cc = NewContext(TheContext, NilSink)
    /\ ccSink = NilSink
    /\ last = NoCall
    /\ InitWr

\* SetDebug()
SetDebug ==
    /\ ~DEBUG
    /\ DEBUG' = TRUE
    /\ UNCHANGED <<wrapper, inject, proto, main, h, vw, valid, reqVars, carVars, wrVars>>

\* DEBUG = false
ClearDebug ==
    /\ DEBUG
    /\ DEBUG' = FALSE
    /\ UNCHANGED <<wrapper, inject, proto, main, h, vw, valid, reqVars, carVars, wrVars>>

\* The application evaluates the arguments of New: the adapters read DEBUG.
MakeWrappers ==
    /\ main = "start"
    /\ wrapper' \in SeqsUpTo(Writers(DEBUG), MaxWrappers)
    /\ main' = "made"
    /\ UNCHANGED <<DEBUG, inject, proto, h, vw, valid, reqVars, carVars, wrVars>>

\* h := New(wrapper...)
CallNew ==
    /\ main = "made"
    /\ vw.st = "idle"
    /\ h' = New(wrapper, DEBUG)
    /\ main' = "built"
    /\ UNCHANGED <<DEBUG, wrapper, inject, proto, vw, valid, reqVars, carVars, wrVars>>

\* The application creates its prototype carrier and the arguments of Stack.
MakeStack ==
    /\ main = "start"
    /\ inject' \in StackInjecters
    /\ proto' = NewContext(inject', NilSink)
    /\ wrapper' \in SeqsUpTo(CtxWrappers, MaxWrappers)
    /\ main' = "made"
    /\ UNCHANGED <<DEBUG, h, vw, valid, reqVars, carVars, wrVars>>

\* a loop body that recovers from the panic of ValidateContext
ValidateOne_recovers(w, c) ==
    IF ~IsContextWrapper(w) THEN [called |-> FALSE, c |-> c, panic |-> NoPanic]
    ELSE [called |-> TRUE, c |-> ValidateContext(w, c).c, panic |-> NoPanic]

\* The body of the loop of ValidateWrapperContexts for wrapper w: whether
\* ValidateContext was called, the carrier afterwards, the panic it raised.
ValidateOne(w, c) ==
    IF ~IsContextWrapper(w) THEN [called |-> FALSE, c |-> c, panic |-> NoPanic]
    ELSE LET res == ValidateContext(w, c) IN
         [called |-> TRUE, c |-> res.c, panic |-> res.panic]

\* ValidateWrapperContexts(ctx, wrapper...): one iteration of its loop, or
\* its return after the last one
ValidateWrapperContexts ==
    /\ main = "made"
    /\ vw.st \in {"idle", "run"}
    /\ IF vw.i > Len(wrapper)
       THEN /\ vw' = [vw EXCEPT !.st = "returned"]
            /\ UNCHANGED <<proto, main>>
       ELSE LET res == ValidateOne(wrapper[vw.i], proto) IN
            /\ proto' = res.c
            /\ vw' = [st  |-> IF res.panic = NoPanic THEN "run" ELSE "panicked",
                      i   |-> vw.i + 1,
                      log |-> IF res.called THEN Append(vw.log, vw.i) ELSE vw.log]
            /\ main' = IF res.panic = NoPanic THEN main ELSE "panicked"
    /\ UNCHANGED <<DEBUG, wrapper, inject, h, valid, reqVars, carVars, wrVars>>

\* the values a ValidateContext outside the package stores as samples
SampleIPs  == {"10.0.0.2"}
SampleErrs == {"EOF"}
SamplePtrs ==
    { CtxPtr(PtrUserIP, v) : v \in SampleIPs } \cup { CtxPtr(PtrError, v) : v \in SampleErrs }

\* ValidateContext of a ContextWrapper of the application that stores a
\* sample value to try the carrier: ctx.SetContext(ptr)
ValidateWithSample(ptr) ==
    /\ main = "made"
    /\ LET res == SetContext(proto, ptr) IN
       /\ res.panic = NoPanic
       /\ proto' = res.c
    /\ UNCHANGED <<DEBUG, wrapper, inject, main, h, vw, valid, reqVars, carVars, wrVars>>

\* h := Stack(inject, wrapper...)
CallStack ==
    /\ main = "made"
    /\ vw.st \in {"idle", "returned"}
    /\ LET res == Stack(inject, wrapper, DEBUG) IN
       /\ h' = res.h
       /\ valid' = IF res.panic = "none" THEN Returned(TRUE) ELSE Panicked(res.panic)
       /\ main' = IF res.panic = "none" THEN "built" ELSE "panicked"
    /\ UNCHANGED <<DEBUG, wrapper, inject, proto, vw, reqVars, carVars, wrVars>>

\* var _ = ValidateContextInjecter(inject)
CallValidateContextInjecter ==
    /\ main = "start"
    /\ valid' = ValidateContextInjecter(inject)
    /\ main' = IF valid'.panic = "none" THEN "validated" ELSE "panicked"
    /\ UNCHANGED <<DEBUG, wrapper, inject, proto, h, vw, reqVars, carVars, wrVars>>

\* --------------------------------------------------------------- serving
\* flag notes the value DEBUG has when the request comes in
NewReq(r, addr) == [st |-> "run", h |-> h, rw |-> RecRef(r), addr |-> addr, ran |-> << >>,
                    flag |-> DEBUG]

\* h.ServeHTTP(rec, req) for a fresh recorder and request, called when the
\* previous call has returned (the loop of the tests)
ServeHTTP(r) ==
    /\ main = "built"
    /\ reqs[r].st = "idle"
    /\ \A q \in Requests : reqs[q].st # "run"
    /\ IF r = 1 THEN TRUE ELSE reqs[r - 1].st # "idle"
    /\ \E addr \in RemoteAddrs : reqs' = [reqs EXCEPT ![r] = NewReq(r, addr)]
    /\ UNCHANGED <<appVars, debugLog, recs, ctxs, carVars, wrVars>>

\* go h.ServeHTTP(rec, req): a server serves each request in its own
\* goroutine, other requests may be under way
GoServeHTTP(r) ==
    /\ main = "built"
    /\ reqs[r].st = "idle"
    /\ IF r = 1 THEN TRUE ELSE reqs[r - 1].st # "idle"
    /\ \E addr \in RemoteAddrs : reqs' = [reqs EXCEPT ![r] = NewReq(r, addr)]
    /\ UNCHANGED <<appVars, debugLog, recs, ctxs, carVars, wrVars>>

Running(r, t) == reqs[r].st = "run" /\ reqs[r].h.t = t

\* the request goes on with handler next and sink rw
Goto(r, next, rw) ==
    [reqs EXCEPT ![r].h = next, ![r].rw = rw, ![r].ran = Append(@, reqs[r].h.t)]

\* the handler returned without calling next: the request is over
Return(r) == [reqs EXCEPT ![r].st = "done", ![r].ran = Append(@, reqs[r].h.t)]

\* the handler panicked
Panic(r) == [reqs EXCEPT ![r].st = "panic", ![r].ran = Append(@, reqs[r].h.t)]

\* fmt.Fprint(rw, s) on the recorder behind the sink of request r
SinkWrite(rs, r, s) ==
    LET u == Underlying(reqs[r].rw) IN [rs EXCEPT ![u.r] = rec_Write(@, s)]

\* NoOp
ServeNoOp(r) ==
    /\ Running(r, "NoOp")
    /\ reqs' = Return(r)
    /\ UNCHANGED <<appVars, debugLog, recs, ctxs, carVars, wrVars>>

\* (d *debug) ServeHTTP asking DEBUG before it calls DEBUGGER.Debug
ServeDebug_checksFlag(r) ==
    /\ Running(r, "debug")
    /\ debugLog' = IF DEBUG
                   THEN [debugLog EXCEPT ![r] = Append(@, [Object |-> reqs[r].h.Object, Role |-> reqs[r].h.Role])]
                   ELSE debugLog
    /\ reqs' = Goto(r, reqs[r].h.Handler, reqs[r].rw)
    /\ UNCHANGED <<appVars, recs, ctxs, carVars, wrVars>>

\* (d *debug) ServeHTTP that reports to the response instead of DEBUGGER
ServeDebug_reportsToSink(r) ==
    /\ Running(r, "debug")
    /\ recs' = SinkWrite(recs, r, reqs[r].h.Role)
    /\ reqs' = Goto(r, reqs[r].h.Handler, reqs[r].rw)
    /\ UNCHANGED <<appVars, debugLog, ctxs, carVars, wrVars>>

\* (d *debug) ServeHTTP
ServeDebug(r) ==
    /\ Running(r, "debug")
    /\ debugLog' = [debugLog EXCEPT ![r] = Append(@, [Object |-> reqs[r].h.Object, Role |-> reqs[r].h.Role])]
    /\ reqs' = Goto(r, reqs[r].h.Handler, reqs[r].rw)
    /\ UNCHANGED <<appVars, recs, ctxs, carVars, wrVars>>

\* (w write) ServeHTTP
write_ServeHTTP(rs, r, s) ==
    LET u == Underlying(reqs[r].rw) IN
    [rs EXCEPT ![u.r] = rec_Write(rec_HeaderSet(@, "Content-Type", "text/plain"), s)]

\* write(s) run as a plain handler
ServeWrite(r) ==
    /\ Running(r, "write")
    /\ recs' = write_ServeHTTP(recs, r, reqs[r].h.s)
    /\ reqs' = Return(r)
    /\ UNCHANGED <<appVars, debugLog, ctxs, carVars, wrVars>>

\* the handler of (w write) Wrap: w.ServeHTTP, then next.ServeHTTP
ServeWriteWrap(r) ==
    /\ Running(r, "write.Wrap")
    /\ recs' = write_ServeHTTP(recs, r, reqs[r].h.s)
    /\ reqs' = Goto(r, reqs[r].h.next, reqs[r].rw)
    /\ UNCHANGED <<appVars, debugLog, ctxs, carVars, wrVars>>

\* the handler of (w writeStop) Wrap: w.ServeHTTP only
ServeWriteStop(r) ==
    /\ Running(r, "writeStop.Wrap")
    /\ recs' = SinkWrite(recs, r, reqs[r].h.s)
    /\ reqs' = Return(r)
    /\ UNCHANGED <<appVars, debugLog, ctxs, carVars, wrVars>>

\* the closure of Handler / HandlerFunc going on with next.ServeHTTP
CallNextHandlerFunc_callsNext(f, next) ==
    LET sh == [t |-> "ServeHTTPNext", s |-> f.obj.s, next |-> next] IN
    CASE f.from = "Handler"     -> IF f.dbg THEN debug(f.obj, asHandler, sh) ELSE sh
      [] f.from = "HandlerFunc" -> IF f.dbg THEN debug(f.obj, asHandlerFunc, sh) ELSE sh
      [] f.from = "NextHandler" -> IF f.dbg THEN debug(f.obj, asNextHandler, sh) ELSE sh

\* What the closure nf of an adapter calls: f(next, rw, req).
CallNextHandlerFunc(f, next) ==
    CASE f.from = "Handler" ->
           IF f.dbg THEN debug(f.obj, asHandler, f.obj) ELSE f.obj
      [] f.from = "HandlerFunc" ->
           IF f.dbg THEN debug(f.obj, asHandlerFunc, f.obj) ELSE f.obj
      [] f.from = "NextHandler" ->
           LET sh == [t |-> "ServeHTTPNext", s |-> f.obj.s, next |-> next] IN
           IF f.dbg THEN debug(f.obj, asNextHandler, sh) ELSE sh

\* the handler of (f NextHandlerFunc) Wrap: f(next, rw, req)
ServeFn(r) ==
    /\ Running(r, "fn")
    /\ reqs' = Goto(r, CallNextHandlerFunc(reqs[r].h.f, reqs[r].h.next), reqs[r].rw)
    /\ UNCHANGED <<appVars, debugLog, recs, ctxs, carVars, wrVars>>

\* (w write) ServeHTTPNext: w.ServeHTTP, then next.ServeHTTP
ServeHTTPNext(r) ==
    /\ Running(r, "ServeHTTPNext")
    /\ recs' = write_ServeHTTP(recs, r, reqs[r].h.s)
    /\ reqs' = Goto(r, reqs[r].h.next, reqs[r].rw)
    /\ UNCHANGED <<appVars, debugLog, ctxs, carVars, wrVars>>

\* the carriers of request r after carrier c was stored at ref
StoreCarrier(cs, ref, c) ==
    IF ref.r = 0 THEN cs
    ELSE IF ref.k > Len(cs[ref.r]) THEN [cs EXCEPT ![ref.r] = Append(@, c)]
    ELSE [cs EXCEPT ![ref.r][ref.k] = c]

\* the prototype carrier after carrier c was stored at ref
StoreProto(ref, c) == IF ref.r = 0 THEN c ELSE proto

\* the handler of (c context) Wrap: next.ServeHTTP(&context{ResponseWriter: rw}, req)
ServeContextWrap(r) ==
    /\ Running(r, "context.Wrap")
    /\ LET s == context_Wrap(reqs[r].h.impl, reqs[r].rw, CtxRef(r, Len(ctxs[r]) + 1)) IN
       IF ~s.called
       THEN /\ reqs' = Return(r)
            /\ UNCHANGED <<ctxs, proto>>
       ELSE /\ reqs' = Goto(r, reqs[r].h.next, s.rw)
            /\ ctxs' = IF IsContexter(s.rw) /\ s.rw # reqs[r].rw THEN StoreCarrier(ctxs, s.rw, s.c) ELSE ctxs
            /\ proto' = IF IsContexter(s.rw) /\ s.rw # reqs[r].rw THEN StoreProto(s.rw, s.c) ELSE proto
    /\ UNCHANGED <<DEBUG, wrapper, inject, main, h, vw, valid, debugLog, recs, carVars, wrVars>>

\* the handler of (setUserIP) Wrap
ServeSetUserIP(r) ==
    /\ Running(r, "setUserIP.Wrap")
    /\ IF ~IsContexter(reqs[r].rw)
       THEN /\ reqs' = Panic(r)
            /\ UNCHANGED <<ctxs, proto>>
       ELSE LET a   == ipfromRequest(reqs[r].addr)
                ptr == IF a.err # Nil THEN CtxPtr(PtrError, a.err) ELSE CtxPtr(PtrUserIP, a.ip)
                res == SetContext(CarrierAt(reqs[r].rw), ptr) IN
            /\ ctxs' = StoreCarrier(ctxs, reqs[r].rw, res.c)
            /\ proto' = StoreProto(reqs[r].rw, res.c)
            /\ reqs' = IF res.panic # NoPanic THEN Panic(r)
                       ELSE Goto(r, reqs[r].h.next, reqs[r].rw)
    /\ UNCHANGED <<DEBUG, wrapper, inject, main, h, vw, valid, debugLog, recs, carVars, wrVars>>

\* the handler of (handleError) Wrap
ServeHandleError(r) ==
    /\ Running(r, "handleError.Wrap")
    /\ IF ~IsContexter(reqs[r].rw)
       THEN /\ reqs' = Panic(r)
            /\ UNCHANGED recs
       ELSE LET g == Context(CarrierAt(reqs[r].rw), CtxPtr(PtrError, Nil))
                u == Underlying(reqs[r].rw) IN
            IF g.panic # NoPanic
            THEN /\ reqs' = Panic(r)
                 /\ UNCHANGED recs
            ELSE IF g.out # Nil
            THEN /\ recs' = [recs EXCEPT ![u.r] = rec_Write(rec_WriteHeader(@, 500), g.out)]
                 /\ reqs' = Return(r)
            ELSE /\ reqs' = Goto(r, reqs[r].h.next, reqs[r].rw)
                 /\ UNCHANGED recs
    /\ UNCHANGED <<appVars, debugLog, ctxs, carVars, wrVars>>

\* the handler of (app) Wrap
ServeApp(r) ==
    /\ Running(r, "app.Wrap")
    /\ IF ~IsContexter(reqs[r].rw)
       THEN /\ reqs' = Panic(r)
            /\ UNCHANGED recs
       ELSE LET g  == Context(CarrierAt(reqs[r].rw), CtxPtr(PtrUserIP, Nil))
                u  == Underlying(reqs[r].rw)
                fl == Flush(reqs[r].rw)
                r1 == rec_Write(recs[u.r], IPString(g.out) \o "\n")
                r2 == IF fl.ok /\ fl.w = u THEN rec_Flush(r1) ELSE r1 IN
            IF g.panic # NoPanic
            THEN /\ reqs' = Panic(r)
                 /\ UNCHANGED recs
            ELSE /\ recs' = [recs EXCEPT ![u.r] = rec_Write(r2, "DONE")]
                 /\ reqs' = Return(r)
    /\ UNCHANGED <<appVars, debugLog, ctxs, carVars, wrVars>>

\* ---------------------------------------------------- direct carrier calls
IPs  == {Nil, "127.0.0.1", "10.0.0.2"}
Errs == {Nil, "EOF", "userip: \"garbage\" is not IP:port"}

\* the pointers middleware hands to SetContext and Context
ValuePtrs ==
    { CtxPtr(PtrUserIP, v) : v \in IPs } \cup { CtxPtr(PtrError, v) : v \in Errs }
    \cup { CtxPtr(ty, "4") : ty \in {PtrContextUnsupported, ContextUnsupported, PtrHomonym} }

\* pointers to a variable of type http.ResponseWriter
SinkPtrs == { CtxPtr(PtrResponseWriter, v) : v \in {NilSink, OtherSink} }

\* next.ServeHTTP(&context{ResponseWriter: rw}, req): the carrier of a request
NewCarrier(rw) ==
    /\ last = NoCall
    /\ ccSink = NilSink
    /\ cc' = context_Wrap(TheContext, rw, CtxRef(1, 1)).c
    /\ ccSink' = rw
    /\ UNCHANGED <<appVars, reqVars, last, wrVars>>

\* rw.(Contexter).SetContext(ptr)
CallSetContext(ptr) ==
    /\ ccSink # NilSink
    /\ LET res == SetContext(cc, ptr) IN
       /\ cc' = res.c
       /\ last' = [op |-> "SetContext", type |-> ptr.type, val |-> ptr.val,
                   found |-> FALSE, out |-> ptr.val, panic |-> res.panic]
    /\ UNCHANGED <<appVars, reqVars, ccSink, wrVars>>

\* rw.(Contexter).Context(ptr)
CallContext(ptr) ==
    /\ ccSink # NilSink
    /\ LET res == Context(cc, ptr) IN
       last' = [op |-> "Context", type |-> ptr.type, val |-> ptr.val,
                found |-> res.found, out |-> res.out, panic |-> res.panic]
    /\ UNCHANGED <<appVars, reqVars, cc, ccSink, wrVars>>

\* ------------------------------------- carrier calls through a wrapper
\* the reference NewCarrier gives the carrier cc
CcRef == CtxRef(1, 1)

SinkWrappers == {"Buffer", "Peek", "EscapeHTML"}

\* NewBuffer(c), NewPeek(c, nil), &EscapeHTML{c}
WrapperAround(via, rw) ==
    CASE via = "Buffer"     -> NewBuffer(rw)
      [] via = "Peek"       -> NewPeek(rw, ProceedNil)
      [] via = "EscapeHTML" -> EscapeHTML(rw)

\* w.SetContext(ptr) for the wrapper w of kind via
Wrapper_SetContext(via, w, c, ptr) ==
    CASE via = "Buffer"     -> Buffer_SetContext(w, c, ptr)
      [] via = "Peek"       -> Peek_SetContext(w, c, ptr)
      [] via = "EscapeHTML" -> EscapeHTML_SetContext(w, c, ptr)

\* w.Context(ptr) for the wrapper w of kind via
Wrapper_Context(via, w, c, ptr) ==
    CASE via = "Buffer"     -> Buffer_Context(w, c, ptr)
      [] via = "Peek"       -> Peek_Context(w, c, ptr)
      [] via = "EscapeHTML" -> EscapeHTML_Context(w, c, ptr)

\* w := a wrapper around the carrier cc; w.SetContext(ptr)
CallSetContextVia(via, ptr) ==
    /\ ccSink # NilSink
    /\ LET d == Wrapper_SetContext(via, WrapperAround(via, CcRef), cc, ptr) IN
       /\ cc' = d.res.c
       /\ last' = [op |-> "SetContext", type |-> ptr.type, val |-> ptr.val,
                   found |-> FALSE, out |-> ptr.val, panic |-> d.res.panic,
                   via |-> via, w |-> d.w]
    /\ UNCHANGED <<appVars, reqVars, ccSink, wrVars>>

\* w := a wrapper around the carrier cc; w.Context(ptr)
CallContextVia(via, ptr) ==
    /\ ccSink # NilSink
    /\ LET d == Wrapper_Context(via, WrapperAround(via, CcRef), cc, ptr) IN
       last' = [op |-> "Context", type |-> ptr.type, val |-> ptr.val,
                found |-> d.res.found, out |-> d.res.out, panic |-> d.res.panic,
                via |-> via, w |-> d.w]
    /\ UNCHANGED <<appVars, reqVars, cc, ccSink, wrVars>>

\* ------------------------------------------- reclamation helper calls
\* the sinks a test has at hand: the raw sinks and the carriers made so far
TestSinks == RawSinks \cup { CtxRef(1, k) : k \in DOMAIN ctxs[1] }

\* rw2 := &context{ResponseWriter: rw}
WrapSink(rw) ==
    /\ Len(ctxs[1]) < MaxNesting
    /\ ctxs' = [ctxs EXCEPT ![1] = Append(@, NewContext(TheContext, rw))]
    /\ UNCHANGED <<appVars, debugLog, reqs, recs, carVars, helperVars, bufVars, peekVars, escVars>>

\* the record of a helper call: the sink returned or called, ok, and the
\* capability methods the call invoked
HelperCall(op, rw, w, ok, invoked) ==
    [op |-> op, n |-> rlast.n + 1, rw |-> rw, w |-> w, ok |-> ok, invoked |-> invoked]

\* res := ReclaimResponseWriter(rw)
CallReclaimResponseWriter(rw) ==
    /\ rlast.n < MaxCalls
    /\ rlast' = HelperCall("ReclaimResponseWriter", rw, ReclaimResponseWriter(rw), TRUE, << >>)
    /\ UNCHANGED <<appVars, reqVars, carVars, capLog, bufVars, peekVars, escVars>>

\* a helper that calls method m of the sink res.w when res.ok
CallCapability(m, rw, res) ==
    LET invoked == IF res.ok THEN << [m |-> m, on |-> res.w] >> ELSE << >> IN
    /\ rlast.n < MaxCalls
    /\ capLog' = capLog \o invoked
    /\ rlast' = HelperCall(m, rw, res.w, res.ok, invoked)
    /\ UNCHANGED <<appVars, reqVars, carVars, bufVars, peekVars, escVars>>

\* ok := Flush(rw)
CallFlush(rw) == CallCapability("Flush", rw, Flush(rw))

\* _, _, _, ok := Hijack(rw)
CallHijack(rw) == CallCapability("Hijack", rw, Hijack(rw))

\* _, ok := CloseNotify(rw)
CallCloseNotify(rw) == CallCapability("CloseNotify", rw, CloseNotify(rw))

\* ------------------------------------- helpers called on a sink wrapper
\* the sinks a Buffer, a Peek or an EscapeHTML is put around in the tests
WrappedSinks == TestSinks \cup {NilSink}

\* a wrapper of kind via around rw that holds something back: a Buffer
\* with a body, a Peek with a status; an EscapeHTML holds nothing
Holding(via, rw) ==
    CASE via = "Buffer"     -> Buffer_Write(NewBuffer(rw), "hi")
      [] via = "Peek"       -> Peek_WriteHeader(NewPeek(rw, ProceedNil), 404)
      [] via = "EscapeHTML" -> EscapeHTML(rw)

\* ReclaimResponseWriter handing on the wrapped sink when it is no Contexter
ReclaimThrough_lenient(via, w) ==
    IF IsContexter(w.ResponseWriter)
    THEN LET d == Wrapper_Context(via, w, CarrierAt(w.ResponseWriter),
                                  CtxPtr(PtrResponseWriter, NilSink))
         IN  [held |-> d.w, w |-> d.res.out, panic |-> d.res.panic]
    ELSE [held |-> w, w |-> w.ResponseWriter, panic |-> NoPanic]

\* ReclaimResponseWriter(rw) for rw a Buffer, a Peek or an EscapeHTML w: all
\* three are Contexters, so ctx.Context(&w) is called on the wrapper. The
\* wrapper after the call, the sink returned, the panic raised.
ReclaimThrough(via, w) ==
    LET d == Wrapper_Context(via, w,
                             IF IsContexter(w.ResponseWriter)
                             THEN CarrierAt(w.ResponseWriter) ELSE proto,
                             CtxPtr(PtrResponseWriter, NilSink))
    IN  [held |-> d.w, w |-> d.res.out, panic |-> d.res.panic]

\* w.(http.Flusher), w.(http.Hijacker), w.(http.CloseNotifier) succeeds
HasCapability(m, w) ==
    CASE m = "Flush"       -> IsFlusher(w)
      [] m = "Hijack"      -> IsHijacker(w)
      [] m = "CloseNotify" -> IsCloseNotifier(w)

\* Flush(rw), Hijack(rw), CloseNotify(rw) for rw a sink wrapper: the sink
\* whose method m is called, ok, and the panic of ReclaimResponseWriter
CapabilityThrough(m, via, w) ==
    LET r == ReclaimThrough(via, w) IN
    IF r.panic # NoPanic
    THEN [held |-> r.held, w |-> NilSink, ok |-> FALSE, panic |-> r.panic]
    ELSE IF HasCapability(m, r.w)
         THEN [held |-> r.held, w |-> r.w, ok |-> TRUE, panic |-> NoPanic]
         ELSE [held |-> r.held, w |-> NilSink, ok |-> FALSE, panic |-> NoPanic]

\* a helper called on a wrapper of kind via that holds something back
ThroughCall(op, via, rw, res, ok) ==
    LET invoked == IF ok THEN << [m |-> op, on |-> res.w] >> ELSE << >> IN
    /\ rlast.n < MaxCalls
    /\ capLog' = capLog \o invoked
    /\ rlast' = [op |-> op, n |-> rlast.n + 1, rw |-> rw, w |-> res.w, ok |-> ok,
                 invoked |-> invoked, via |-> via, held |-> res.held,
                 panic |-> res.panic]
    /\ UNCHANGED <<appVars, reqVars, carVars, bufVars, peekVars, escVars>>

\* res := ReclaimResponseWriter(w), w a wrapper around rw
CallReclaimThrough(via, rw) ==
    LET res == ReclaimThrough(via, Holding(via, rw)) IN
    ThroughCall("ReclaimResponseWriter", via, rw, res, FALSE)

\* ok := Flush(w), w a wrapper around rw
CallFlushThrough(via, rw) ==
    LET res == CapabilityThrough("Flush", via, Holding(via, rw)) IN
    ThroughCall("Flush", via, rw, res, res.ok)

\* _, _, _, ok := Hijack(w), w a wrapper around rw
CallHijackThrough(via, rw) ==
    LET res == CapabilityThrough("Hijack", via, Holding(via, rw)) IN
    ThroughCall("Hijack", via, rw, res, res.ok)

\* _, ok := CloseNotify(w), w a wrapper around rw
CallCloseNotifyThrough(via, rw) ==
    LET res == CapabilityThrough("CloseNotify", via, Holding(via, rw)) IN
    ThroughCall("CloseNotify", via, rw, res, res.ok)

\* ------------------------------------------------------ calls on a Buffer
\* the status codes and body chunks the handlers of the tests write
TestCodes  == {201, 404}
TestChunks == {"hi", "ho"}
TestHeaders == { <<"a", "b">>, <<"Content-Type", "text/plain">> }

\* A call op on buf: the Buffer and the recorder after it, and its result.
\* blast also keeps the recorder as it was before the call, the recorder as
\* it was when the Buffer was constructed or last reset, and whether a
\* flush method was called since then.
BufferCall(op, bf, rec, ok) ==
    /\ blast.n < MaxBufferOps
    /\ buf' = bf
    /\ recs' = [recs EXCEPT ![1] = rec]
    /\ blast' = [op |-> op, n |-> blast.n + 1, ok |-> ok, before |-> recs[1],
                 flushed |-> IF op = "Reset" THEN FALSE
                             ELSE blast.flushed \/ op \in {"FlushAll", "FlushHeaders", "FlushCode"},
                 mark |-> IF op = "Reset" THEN rec ELSE blast.mark]
    /\ UNCHANGED <<appVars, debugLog, reqs, ctxs, carVars, helperVars, peekVars, escVars>>

\* rw.Header().Set(k, v)
BufferHeaderSet(k, v) ==
    BufferCall("Header.Set",
               [Buffer_Header(buf) EXCEPT !.header = http_Header_Set(buf.header, k, v)],
               recs[1], TRUE)

\* rw.Header().Get(k)
BufferHeaderGet == BufferCall("Header.Get", Buffer_Header(buf), recs[1], TRUE)

\* rw.WriteHeader(i)
BufferWriteHeader(i) == BufferCall("WriteHeader", Buffer_WriteHeader(buf, i), recs[1], TRUE)

\* a Write that also writes through to the underlying sink
BufferWrite_through(b) ==
    BufferCall("Write", Buffer_Write(buf, b), rec_Write(recs[1], b), TRUE)

\* rw.Write(b)
BufferWrite(b) == BufferCall("Write", Buffer_Write(buf, b), recs[1], TRUE)

\* buf.Reset()
BufferReset == BufferCall("Reset", Buffer_Reset(buf), recs[1], TRUE)

\* buf.IsOk()
BufferIsOk == BufferCall("IsOk", buf, recs[1], Buffer_IsOk(buf))

\* buf.HasChanged()
BufferHasChanged == BufferCall("HasChanged", buf, recs[1], Buffer_HasChanged(buf))

\* a FlushAll that empties the Buffer once it has delivered
BufferFlushAll_consumes ==
    BufferCall("FlushAll", Buffer_Reset(buf), Buffer_FlushAll(buf, recs[1]), TRUE)

\* buf.FlushAll()
BufferFlushAll == BufferCall("FlushAll", buf, Buffer_FlushAll(buf, recs[1]), TRUE)

\* buf.FlushHeaders()
BufferFlushHeaders == BufferCall("FlushHeaders", buf, Buffer_FlushHeaders(buf, recs[1]), TRUE)

\* buf.FlushCode()
BufferFlushCode == BufferCall("FlushCode", buf, Buffer_FlushCode(buf, recs[1]), TRUE)

\* -------------------------------------------------------- calls on a Peek
\* the status codes around the borders of the 2xx range
StatusCodes == {199, 200, 201, 299, 300, 404, 407}

\* A call op on pk: what it did to the Peek and to the recorder, and its
\* results. plast also keeps the recorder and the Peek as they were before
\* the call, the chunks of all Writes that returned no error, and what
\* happened since the Peek was constructed or last reset (since; mark is
\* the number of operations the recorder had seen by then).
PeekCall(op, arg, d, ok, res, given, since) ==
    /\ plast.n < MaxPeekOps
    /\ pk' = d.p
    /\ recs' = [recs EXCEPT ![1] = d.rec]
    /\ plast' = [op |-> op, prev |-> plast.op, n |-> plast.n + 1, arg |-> arg, ok |-> ok,
                 res |-> res, panic |-> d.panic, before |-> recs[1],
                 was |-> pk, given |-> given, since |-> since]
    /\ UNCHANGED <<appVars, debugLog, reqs, ctxs, carVars, helperVars, bufVars, escVars>>

\* a call that is no Write and no Reset
PeekOther(op, d, ok) ==
    PeekCall(op, "", d, ok, NoPeekCall.res, plast.given, plast.since)

\* ck := NewPeek(rec, proceed), the first statement of a test
CallNewPeek(proceed) ==
    /\ plast.op = "none"
    /\ pk' = NewPeek(RecRef(1), proceed)
    /\ plast' = [NoPeekCall EXCEPT !.op = "NewPeek"]
    /\ UNCHANGED <<appVars, reqVars, carVars, helperVars, bufVars, escVars>>

\* rw.Header().Set(k, v)
PeekHeaderSet(k, v) ==
    PeekOther("Header.Set",
              PeekDid([Peek_Header(pk) EXCEPT !.header = http_Header_Set(pk.header, k, v)],
                      recs[1], NoPanic), TRUE)

\* rw.WriteHeader(i)
PeekWriteHeader(i) ==
    PeekOther("WriteHeader", PeekDid(Peek_WriteHeader(pk, i), recs[1], NoPanic), TRUE)

\* rw.Write(b)
PeekWrite(b) ==
    LET w == Peek_Write(pk, recs[1], b)
        s == plast.since
    IN  PeekCall("Write", b, PeekDid(w.p, w.rec, w.panic), TRUE,
                 [n |-> w.n, err |-> w.err],
                 IF w.err = Nil THEN Append(plast.given, b) ELSE plast.given,
                 [evals |-> s.evals + w.evals,
                  writes |-> s.writes + 1,
                  fwd |-> s.fwd + Len(w.rec.Body) - Len(recs[1].Body),
                  fwdAtEval |-> IF w.evals = 1 THEN s.fwd ELSE s.fwdAtEval,
                  decision |-> IF w.evals = 0 THEN s.decision
                               ELSE IF w.ret THEN "true" ELSE "false",
                  mark |-> s.mark])

\* ck.Reset()
PeekReset ==
    PeekCall("Reset", "", PeekDid(Peek_Reset(pk), recs[1], NoPanic), TRUE,
             NoPeekCall.res, plast.given,
             [NoPeekCall.since EXCEPT !.mark = Len(recs[1].ops)])

\* ck.IsOk()
PeekIsOk == PeekOther("IsOk", PeekDid(pk, recs[1], NoPanic), Peek_IsOk(pk))

\* ck.HasChanged()
PeekHasChanged ==
    PeekOther("HasChanged", PeekDid(pk, recs[1], NoPanic), Peek_HasChanged(pk))

\* ck.FlushMissing()
PeekFlushMissing == PeekOther("FlushMissing", Peek_FlushMissing(pk, recs[1]), TRUE)

\* ck.FlushHeaders()
PeekFlushHeaders == PeekOther("FlushHeaders", Peek_FlushHeaders(pk, recs[1]), TRUE)

\* ck.FlushCode()
PeekFlushCode == PeekOther("FlushCode", Peek_FlushCode(pk, recs[1]), TRUE)

\* -------------------------------------------------- calls on an EscapeHTML
\* the bytes written in the tests: a, the five special characters, the two
\* bytes of an e with acute accent (0xC3 0xA9), and the invalid byte 0xFF
TestBytes == {97, 38, 39, 34, 60, 62, 195, 169, 255}

\* esc := &EscapeHTML{rec}; esc.Write(b), the one call of a test
EscapeWrite(b) ==
    /\ elast.n < MaxEscapeWrites
    /\ Len(elast.given) + Len(b) <= MaxBytes
    /\ LET w == EscapeHTML_Write(EscapeHTML(RecRef(1)), recs[1], b)
       IN  /\ recs' = [recs EXCEPT ![1] = w.rec]
           /\ elast' = [op |-> "Write", n |-> elast.n + 1, arg |-> b,
                        given |-> elast.given \o b, before |-> recs[1],
                        num |-> w.num, err |-> w.err]
    /\ UNCHANGED <<appVars, debugLog, reqs, ctxs, carVars, helperVars, bufVars, peekVars>>

\* ------------------------------------------------------- specifications
\* Chains of writing wrappers built by New, served one request at a time.
Next ==
    \/ SetDebug
    \/ ClearDebug
    \/ MakeWrappers
    \/ CallNew
    \/ \E r \in Requests : ServeHTTP(r)
    \/ \E r \in Requests : ServeNoOp(r)
    \/ \E r \in Requests : ServeDebug(r)
    \/ \E r \in Requests : ServeWrite(r)
    \/ \E r \in Requests : ServeWriteWrap(r)
    \/ \E r \in Requests : ServeWriteStop(r)
    \/ \E r \in Requests : ServeFn(r)
    \/ \E r \in Requests : ServeHTTPNext(r)

Spec == Init /\ [][Next]_vars

\* The context example: validation, Stack, and requests served concurrently.
NextStack ==
    \/ MakeStack
    \/ ValidateWrapperContexts
    \/ CallStack
    \/ \E r \in Requests : GoServeHTTP(r)
    \/ \E r \in Requests : ServeNoOp(r)
    \/ \E r \in Requests : ServeContextWrap(r)
    \/ \E r \in Requests : ServeSetUserIP(r)
    \/ \E r \in Requests : ServeHandleError(r)
    \/ \E r \in Requests : ServeApp(r)

SpecStack == Init /\ [][NextStack]_vars

\* The context example with validators that leave sample values in the
\* prototype carrier before Stack is called, the requests served one after
\* the other.
NextProto ==
    \/ MakeStack
    \/ \E ptr \in SamplePtrs : ValidateWithSample(ptr)
    \/ ValidateWrapperContexts
    \/ CallStack
    \/ \E r \in Requests : ServeHTTP(r)
    \/ \E r \in Requests : ServeNoOp(r)
    \/ \E r \in Requests : ServeContextWrap(r)
    \/ \E r \in Requests : ServeSetUserIP(r)
    \/ \E r \in Requests : ServeHandleError(r)
    \/ \E r \in Requests : ServeApp(r)

SpecProto == Init /\ [][NextProto]_vars

\* ValidateContextInjecter on every implementation of Injecters.
InitValidate ==
    /\ inject \in Injecters
    /\ proto = NewContext(inject, NilSink)
    /\ DEBUG = FALSE /\ wrapper = << >> /\ main = "start" /\ h = NoOp
    /\ vw = [st |-> "idle", i |-> 1, log |-> << >>]
    /\ valid = [panic |-> "none", ret |-> FALSE]
    /\ debugLog = [r \in Requests |-> << >>]
    /\ reqs = [r \in Requests |-> IdleReq]
    /\ recs = [r \in Requests |-> NewRecorder]
    /\ ctxs = [r \in Requests |-> << >>]
    /\ cc = NewContext(TheContext, NilSink) /\ ccSink = NilSink /\ last = NoCall
    /\ InitWr

NextValidate == CallValidateContextInjecter

SpecValidate == InitValidate /\ [][NextValidate]_vars

\* Context and SetContext called in any order on the carrier of a request.
NextCarrier ==
    \/ \E r \in Requests : NewCarrier(RecRef(r))
    \/ \E ptr \in ValuePtrs : CallSetContext(ptr)
    \/ \E ptr \in SinkPtrs : CallSetContext(ptr)
    \/ \E ptr \in ValuePtrs : CallContext(ptr)
    \/ \E ptr \in SinkPtrs : CallContext(ptr)

SpecCarrier == Init /\ [][NextCarrier]_vars

\* The reclamation helpers called on raw sinks and on carriers around them.
NextReclaim ==
    \/ \E rw \in TestSinks : WrapSink(rw)
    \/ \E rw \in TestSinks : CallReclaimResponseWriter(rw)
    \/ \E rw \in TestSinks : CallFlush(rw)
    \/ \E rw \in TestSinks : CallHijack(rw)
    \/ \E rw \in TestSinks : CallCloseNotify(rw)

SpecReclaim == Init /\ [][NextReclaim]_vars

\* The helpers called on a Buffer, a Peek or an EscapeHTML around a raw
\* sink, around nil, or around a carrier.
NextReclaimThrough ==
    \/ \E rw \in TestSinks : WrapSink(rw)
    \/ \E via \in SinkWrappers, rw \in WrappedSinks : CallReclaimThrough(via, rw)
    \/ \E via \in SinkWrappers, rw \in WrappedSinks : CallFlushThrough(via, rw)
    \/ \E via \in SinkWrappers, rw \in WrappedSinks : CallHijackThrough(via, rw)
    \/ \E via \in SinkWrappers, rw \in WrappedSinks : CallCloseNotifyThrough(via, rw)

SpecReclaimThrough == Init /\ [][NextReclaimThrough]_vars

\* A handler and a middleware working on a Buffer around a recorder.
NextBuffer ==
    \/ \E kv \in TestHeaders : BufferHeaderSet(kv[1], kv[2])
    \/ BufferHeaderGet
    \/ \E i \in TestCodes : BufferWriteHeader(i)
    \/ \E b \in TestChunks : BufferWrite(b)
    \/ BufferReset
    \/ BufferIsOk
    \/ BufferHasChanged
    \/ BufferFlushAll
    \/ BufferFlushHeaders
    \/ BufferFlushCode

SpecBuffer == Init /\ [][NextBuffer]_vars

\* Status codes written to a Buffer and to a Peek, and IsOk asked of both.
NextIsOk ==
    \/ \E i \in StatusCodes : BufferWriteHeader(i)
    \/ BufferIsOk
    \/ \E i \in StatusCodes : PeekWriteHeader(i)
    \/ PeekIsOk

SpecIsOk == Init /\ [][NextIsOk]_vars

\* A handler and a middleware working on a Peek around a recorder.
NextPeek ==
    \/ \E proceed \in Proceeds : CallNewPeek(proceed)
    \/ \E kv \in TestHeaders : PeekHeaderSet(kv[1], kv[2])
    \/ \E i \in TestCodes : PeekWriteHeader(i)
    \/ \E b \in TestChunks : PeekWrite(b)
    \/ PeekReset
    \/ PeekIsOk
    \/ PeekHasChanged
    \/ PeekFlushMissing
    \/ PeekFlushHeaders
    \/ PeekFlushCode

SpecPeek == Init /\ [][NextPeek]_vars

\* A byte sequence written through an EscapeHTML around a recorder.
NextEscape == \E b \in SeqsUpTo(TestBytes, MaxBytes - Len(elast.given)) : EscapeWrite(b)

SpecEscape == Init /\ [][NextEscape]_vars

\* A carrier that is called directly and through a Buffer, a Peek and an
\* EscapeHTML wrapped around it.
NextWrapped ==
    \/ \E r \in Requests : NewCarrier(RecRef(r))
    \/ \E ptr \in ValuePtrs : CallSetContext(ptr)
    \/ \E ptr \in ValuePtrs : CallContext(ptr)
    \/ \E via \in SinkWrappers, ptr \in ValuePtrs : CallSetContextVia(via, ptr)
    \/ \E via \in SinkWrappers, ptr \in ValuePtrs : CallContextVia(via, ptr)
    \/ \E via \in SinkWrappers, ptr \in SinkPtrs : CallContextVia(via, ptr)

SpecWrapped == Init /\ [][NextWrapped]_vars

\* ================================================================ claims
\* the string a writing wrapper appends to the body
Token(w) ==
    CASE w.kind \in {"write", "writeStop"} -> w.s
      [] w.kind = "WrapperFunc"            -> w.wf.s
      [] w.kind = "NextHandlerFunc"        -> w.obj.s

\* the wrapper performs its side effect and then invokes next exactly once
InvokesNext(w) ==
    \/ w.kind \in {"write", "WrapperFunc"}
    \/ w.kind = "NextHandlerFunc" /\ w.from = "NextHandler"

Tokens(ws) == [i \in 1..Len(ws) |-> Token(ws[i])]

IsPrefix(p, q) == Len(p) <= Len(q) /\ SubSeq(q, 1, Len(p)) = p

\* the positions of the wrappers that do not invoke next
Stoppers(ws) == {i \in 1..Len(ws) : ~InvokesNext(ws[i])}

FirstStopper(ws) == CHOOSE k \in Stoppers(ws) : \A j \in Stoppers(ws) : k <= j

Served(r) == reqs[r].st \in {"run", "done"}

\* C1: when every wrapper handed to New writes and then invokes next, a
\* request sees the writes of W1..Wn in that order and then the terminal
\* NoOp, which runs only after all of them; with no wrappers at all the
\* recorder is left as it was created.
C1_EffectsInOrder ==
    \A r \in Requests :
        (Served(r) /\ Stoppers(wrapper) = {}) =>
            /\ IsPrefix(recs[r].Body, Tokens(wrapper))
            /\ reqs[r].st = "done" =>
                 /\ recs[r].Body = Tokens(wrapper)
                 /\ reqs[r].ran # << >>
                 /\ reqs[r].ran[Len(reqs[r].ran)] = "NoOp"
            /\ (\E i \in DOMAIN reqs[r].ran : reqs[r].ran[i] = "NoOp") =>
                 /\ recs[r].Body = Tokens(wrapper)
                 /\ reqs[r].st = "done"
            /\ wrapper = << >> => recs[r] = NewRecorder

C1_Witness ==
    \E r \in Requests :
        /\ reqs[r].st = "done"
        /\ Len(wrapper) = 3
        /\ Stoppers(wrapper) = {}
        /\ recs[r].Body = <<"a", "c", "a">>
        /\ wrapper[3].kind = "NextHandlerFunc"

\* C2: when some wrapper does not invoke next, the wrappers up to and
\* including the first such wrapper Wk run in order, and neither a later
\* wrapper nor the terminal NoOp runs.
C2_StopsAtFirstStopper ==
    \A r \in Requests :
        (Served(r) /\ Stoppers(wrapper) # {}) =>
            LET k == FirstStopper(wrapper) IN
            /\ IsPrefix(recs[r].Body, Tokens(SubSeq(wrapper, 1, k)))
            /\ reqs[r].st = "done" => recs[r].Body = Tokens(SubSeq(wrapper, 1, k))
            /\ \A i \in DOMAIN reqs[r].ran : reqs[r].ran[i] # "NoOp"

C2_Witness ==
    \E r \in Requests :
        /\ reqs[r].st = "done"
        /\ Len(wrapper) = 3
        /\ wrapper[2] = Handler(write("b"), FALSE)
        /\ InvokesNext(wrapper[1]) /\ InvokesNext(wrapper[3])
        /\ recs[r].Body = <<"a", "b">>

\* ---- the carrier (SpecCarrier)
\* a call of SetContext that returned, followed by a call of Context for the
\* same type
SetThenGet ==
    /\ last.op = "SetContext" /\ last.panic = NoPanic
    /\ last'.op = "Context" /\ last'.type = last.type

\* C3 as stated: after SetContext(&v) has stored v, Context(&out) for the same
\* type reports found and sets out to v, for every value v.
C3_RoundTripAllValues ==
    [][SetThenGet => (last'.found /\ last'.out = last.val)]_vars

\* C3: after SetContext(&v) has stored a non-nil v of a type SetContext has a
\* case for, Context(&out) for that type reports found, sets out to v and
\* does not panic; after SetContext of a nil v, Context reports not found
\* and leaves out as it was.
C3_RoundTripNonNil ==
    [][SetThenGet =>
         /\ last'.panic = NoPanic
         /\ IF last.val # Nil
            THEN last'.found /\ last'.out = last.val
            ELSE ~last'.found /\ last'.out = last'.val]_vars

C3_Witness ==
    /\ last.op = "Context" /\ last.type = PtrUserIP
    /\ last.val = Nil /\ last.found /\ last.out = "10.0.0.2"
    /\ cc.userIP = "10.0.0.2" /\ cc.err = "EOF"

\* the types the type switch of the operation has no case for
Unregistered(op, ty) ==
    IF op = "Context" THEN ty \notin {PtrResponseWriter, PtrUserIP, PtrError}
    ELSE ty \notin {PtrUserIP, PtrError}

ErrUnsupported(op) ==
    IF op = "Context" THEN "ErrUnsupportedContextGetter" ELSE "ErrUnsupportedContextSetter"

\* C4: a call of Context (of SetContext) with a pointer of a type U the
\* carrier has no case for panics with ErrUnsupportedContextGetter
\* (ErrUnsupportedContextSetter) carrying the pointer of type U, and leaves
\* the slots of the carrier, its wrapped sink and the pointee as they were.
C4_UnregisteredTypeRaises ==
    [][(last'.op # "none" /\ Unregistered(last'.op, last'.type)) =>
         /\ last'.panic = [err |-> ErrUnsupported(last'.op), Type |-> last'.type]
         /\ cc' = cc
         /\ ccSink' = ccSink
         /\ last'.out = last'.val]_vars

C4_Witness ==
    /\ last.op = "SetContext" /\ last.type = PtrResponseWriter
    /\ last.panic = [err |-> "ErrUnsupportedContextSetter", Type |-> PtrResponseWriter]
    /\ cc.userIP = "127.0.0.1" /\ cc.err = "EOF" /\ cc.ResponseWriter = RecRef(1)

\* C5: whatever Context and SetContext calls were made on a carrier, asking
\* it for *http.ResponseWriter reports found and yields the very sink the
\* carrier was created around.
C5_SinkAlwaysFound ==
    ccSink # NilSink =>
        /\ cc.ResponseWriter = ccSink
        /\ \A p \in SinkPtrs :
               Context(cc, p) = [found |-> TRUE, out |-> ccSink, panic |-> NoPanic]
        /\ (last.op = "Context" /\ last.type = PtrResponseWriter) =>
               (last.found /\ last.out = ccSink /\ last.panic = NoPanic)

C5_Witness ==
    /\ last.op = "Context" /\ last.type = PtrResponseWriter
    /\ last.val = OtherSink /\ last.found /\ last.out = RecRef(2)
    /\ cc.err # Nil /\ cc.userIP # Nil

\* ---- the stack of the example (SpecStack)
\* the carriers allocated for request r
Carriers(r) == { ctxs[r][k] : k \in DOMAIN ctxs[r] }

LastRan(r) == reqs[r].ran[Len(reqs[r].ran)]

\* what the handlers of the example can write for a request from addr
OwnOutput(addr) ==
    { IPString(ipfromRequest(addr).ip) \o "\n", "<nil>\n", "DONE", ipfromRequest(addr).err }

\* C6: every request gets a carrier of its own, created empty around the
\* sink of that request; what one request stores is never seen by another,
\* whether the requests run one after the other or interleaved.
C6_FreshCarrierPerRequest ==
    \A r \in Requests :
        /\ reqs[r].rw.t # "nil" => reqs[r].rw.r = r
        /\ proto.userIP = Nil /\ proto.err = Nil
        /\ \A c \in Carriers(r) :
               /\ c.ResponseWriter.r = r
               /\ c.userIP \in {Nil, ipfromRequest(reqs[r].addr).ip}
               /\ c.err \in {Nil, ipfromRequest(reqs[r].addr).err}
        /\ (reqs[r].st = "run" /\ reqs[r].ran # << >> /\ LastRan(r) = "context.Wrap"
              /\ IsContexter(reqs[r].rw)) =>
               (CarrierAt(reqs[r].rw).userIP = Nil /\ CarrierAt(reqs[r].rw).err = Nil)
        /\ \A i \in DOMAIN recs[r].Body : recs[r].Body[i] \in OwnOutput(reqs[r].addr)

C6_Witness ==
    /\ reqs[1].st = "run" /\ reqs[2].st = "run"
    /\ reqs[1].addr # reqs[2].addr
    /\ IsContexter(reqs[1].rw) /\ IsContexter(reqs[2].rw)
    /\ CarrierAt(reqs[1].rw).err # Nil
    /\ CarrierAt(reqs[2].rw).userIP # Nil

\* ---- ValidateContextInjecter (SpecValidate)
\* a correct carrier: Wrap calls next with a carrier around the sink it was
\* given, the sink slot yields that sink, and Context and SetContext panic
\* for an unregistered type with their error type carrying that type
CorrectCarrier(inj) ==
    /\ inj.callsNext
    /\ inj.passes = "carrier"
    /\ inj.rwSlot = "wrapped"
    /\ inj.getter = Raises("ErrUnsupportedContextGetter", "ctxPtr")
    /\ inj.setter = Raises("ErrUnsupportedContextSetter", "ctxPtr")

\* C7: ValidateContextInjecter returns true, without a panic, for every
\* correct carrier.
C7_AcceptsCorrectCarrier ==
    (main # "start" /\ CorrectCarrier(inject)) =>
        (main = "validated" /\ valid = Returned(TRUE))

C7_Witness ==
    /\ main = "validated" /\ valid = Returned(TRUE)
    /\ CorrectCarrier(inject)
    /\ inject.gets = {PtrError}

\* C8: ValidateContextInjecter panics for every carrier that fails one of
\* the checks: a Wrap that does not call next or does not pass a carrier, a
\* sink slot that is not found or yields another sink, a Context or
\* SetContext that does not panic for an unregistered type, panics with
\* another error type, or panics carrying a type other than the probe type.
C8_RejectsEveryFailure ==
    main = "validated" => CorrectCarrier(inject)

\* ---- ValidateWrapperContexts and Stack (SpecStack)
ImplementsContextWrapper(w) == w.kind \in {"setUserIP", "handleError", "app"}

\* the positions up to n of the wrappers that implement ContextWrapper, in
\* list order
RECURSIVE ContextWrapperPositions(_)
ContextWrapperPositions(n) ==
    IF n = 0 THEN << >>
    ELSE IF ImplementsContextWrapper(wrapper[n])
         THEN Append(ContextWrapperPositions(n - 1), n)
         ELSE ContextWrapperPositions(n - 1)

\* the carrier has a case for every type the ValidateContext of w asks for
Supports(inj, w) ==
    CASE w.kind = "setUserIP"   -> {PtrUserIP, PtrError} \subseteq inj.sets
      [] w.kind = "handleError" -> PtrError \in inj.gets
      [] w.kind = "app"         -> PtrUserIP \in inj.gets
      [] OTHER                  -> TRUE

\* C9: ValidateWrapperContexts calls ValidateContext once for each wrapper
\* that implements ContextWrapper, in list order, and skips the others; when
\* one call panics the panic leaves ValidateWrapperContexts and no later
\* wrapper is checked.
C9_ValidatesInListOrder ==
    /\ vw.i <= Len(wrapper) + 1
    /\ vw.log = ContextWrapperPositions(vw.i - 1)
    /\ \A j \in 1..(vw.i - 1) :
           ~Supports(inject, wrapper[j]) => (vw.st = "panicked" /\ j = vw.i - 1)
    /\ vw.st = "panicked" =>
           /\ main = "panicked"
           /\ vw.log # << >>
           /\ vw.log[Len(vw.log)] = vw.i - 1
           /\ ~Supports(inject, wrapper[vw.i - 1])
    /\ vw.st = "returned" =>
           /\ vw.i = Len(wrapper) + 1
           /\ \A j \in 1..Len(wrapper) : Supports(inject, wrapper[j])

C9_Witness ==
    /\ vw.st = "panicked"
    /\ Len(wrapper) = 3
    /\ wrapper[1].kind = "context"
    /\ vw.log = <<2>>
    /\ ImplementsContextWrapper(wrapper[3])

\* C10: Stack validates inject first: when the validation panics Stack
\* panics and no handler is built; otherwise the handler is that of
\* New(inject, W1..Wn), so the carrier runs first and every Wi is served a
\* sink that is a carrier.
C10_StackValidatesThenBuilds ==
    /\ ValidateContextInjecter(inject).panic # "none" =>
           /\ main # "built"
           /\ h = NoOp
           /\ valid.panic # "none" => valid = Panicked(ValidateContextInjecter(inject).panic)
           /\ \A r \in Requests : reqs[r].st = "idle"
    /\ main = "built" =>
           /\ valid = Returned(TRUE)
           /\ \E b \in BOOLEAN : h = New(<<injecter(inject)>> \o wrapper, b)
           /\ \A r \in Requests :
                  reqs[r].ran # << >> =>
                      /\ reqs[r].ran[1] = "context.Wrap"
                      /\ reqs[r].st = "run" => IsContexter(reqs[r].rw)

C10_Witness ==
    /\ main = "built"
    /\ wrapper = <<setUserIP, handleError, app>>
    /\ reqs[1].st = "done"
    /\ reqs[1].ran = <<"context.Wrap", "setUserIP.Wrap", "handleError.Wrap", "app.Wrap">>
    /\ recs[1].Body = <<"127.0.0.1\n", "DONE">>

\* ---- the reclamation helpers (SpecReclaim)
\* the sink a carrier was constructed around
WrappedBy(rw) == ctxs[rw.r][rw.k].ResponseWriter

\* the sink the helpers work on: one level below a carrier, else the sink
Reclaimed(rw) == IF rw.t = "ctx" THEN WrappedBy(rw) ELSE rw

\* the sink has the method the helper op looks for
Exposes(w, op) ==
    CASE op = "Flush"       -> w.t \in {"flushingRW", "rec"}
      [] op = "Hijack"      -> w.t = "hijackerRW"
      [] op = "CloseNotify" -> w.t = "closeNotifyRW"

Capabilities == {"Flush", "Hijack", "CloseNotify"}

C12_ReclaimIsSingleLevel ==
    (rlast.op # "none" /\ rlast.rw.t = "ctx" /\ WrappedBy(rlast.rw).t = "ctx") =>
        IF rlast.op = "ReclaimResponseWriter"
        THEN /\ rlast.w = WrappedBy(rlast.rw)
             /\ rlast.w # Underlying(rlast.rw)
        ELSE /\ ~rlast.ok
             /\ rlast.invoked = << >>

C12_Witness ==
    /\ rlast.op = "Hijack"
    /\ rlast.rw = CtxRef(1, 2)
    /\ WrappedBy(CtxRef(1, 2)) = CtxRef(1, 1)
    /\ WrappedBy(CtxRef(1, 1)) = HijackerRW
    /\ ~rlast.ok
    /\ capLog = << >>

\* C13: Flush, Hijack and CloseNotify call the method of the reclaimed sink
\* exactly once and report ok = true when the reclaimed sink has that method,
\* and otherwise call no method of any sink and report ok = false.
C13_CapabilityOfReclaimedSink ==
    /\ rlast.op \in Capabilities =>
           /\ rlast.ok <=> Exposes(Reclaimed(rlast.rw), rlast.op)
           /\ rlast.invoked = IF Exposes(Reclaimed(rlast.rw), rlast.op)
                              THEN << [m |-> rlast.op, on |-> Reclaimed(rlast.rw)] >>
                              ELSE << >>
           /\ Len(capLog) >= Len(rlast.invoked)
           /\ SubSeq(capLog, Len(capLog) - Len(rlast.invoked) + 1, Len(capLog)) = rlast.invoked
    /\ Len(capLog) <= rlast.n
    /\ \A i \in DOMAIN capLog : Exposes(capLog[i].on, capLog[i].m)

C13_Witness ==
    /\ rlast.op = "CloseNotify"
    /\ rlast.ok
    /\ rlast.rw = CtxRef(1, 1)
    /\ capLog = << [m |-> "Flush", on |-> FlushingRW],
                   [m |-> "CloseNotify", on |-> CloseNotifyRW] >>

\* ---- Buffer (SpecBuffer)
\* C14: from the construction or the last Reset of a Buffer until one of its
\* flush methods is called, the underlying sink stays as it was: no call of
\* Header, WriteHeader or Write on the Buffer reaches it.
C14_BufferDefersEverything ==
    /\ ~blast.flushed => recs[1] = blast.mark
    /\ blast.op \in {"Header.Set", "Header.Get", "WriteHeader", "Write"} =>
           recs[1] = blast.before

C14_Witness ==
    /\ ~blast.flushed
    /\ blast.op = "Write"
    /\ buf.Code = 404
    /\ buf.Buffer = "hiho"
    /\ buf.header = { <<"a", "b">> }
    /\ recs[1] = NewRecorder

\* what FlushAll makes the underlying sink observe
FlushAllOps(bf) ==
    IF ~bf.changed THEN << >>
    ELSE << <<"Header", bf.header>> >>
         \o (IF bf.Code # 0 THEN << <<"WriteHeader", bf.Code>> >> ELSE << >>)
         \o << <<"Write", bf.Buffer>> >>

\* C15: FlushAll of a Buffer on which something was changed makes the
\* underlying sink observe the cached headers, then the cached status code
\* when one was set, then the whole buffered body in one write; FlushAll of
\* an unchanged Buffer does nothing on the underlying sink.
C15_FlushAllInOrder ==
    blast.op = "FlushAll" =>
        /\ recs[1].ops = blast.before.ops \o FlushAllOps(buf)
        /\ ~buf.changed => recs[1] = blast.before
        /\ buf.changed =>
               /\ buf.header \subseteq recs[1].HeaderMap
               /\ recs[1].Body = Append(blast.before.Body, buf.Buffer)
               /\ (buf.Code # 0 /\ ~blast.before.wroteHeader) => recs[1].Code = buf.Code

C15_Witness ==
    /\ blast.op = "FlushAll"
    /\ buf.header = { <<"a", "b">> }
    /\ recs[1].ops = << <<"Header", { <<"a", "b">> }>>, <<"WriteHeader", 404>>, <<"Write", "hi">> >>
    /\ recs[1].Code = 404
    /\ ~Buffer_IsOk(buf)

\* C17: Reset leaves a Buffer with status code 0, no cached header, an empty
\* body and HasChanged() = false, around the same underlying sink, and does
\* nothing on that sink.
C17_ResetClearsBuffer ==
    blast.op = "Reset" =>
        /\ buf.Code = 0
        /\ buf.header = {}
        /\ buf.Buffer = ""
        /\ ~Buffer_HasChanged(buf)
        /\ buf.ResponseWriter = RecRef(1)
        /\ recs[1] = blast.before

C17_Witness ==
    /\ blast.op = "Reset"
    /\ blast.n = 4
    /\ blast.before.ops = << <<"Header", {}>>, <<"WriteHeader", 404>>, <<"Write", "">> >>
    /\ buf = NewBuffer(RecRef(1))

\* ---- IsOk of Buffer and of Peek (SpecIsOk)
\* no status code cached, or one of the 2xx range
UnsetOr2xx(code) == code = 0 \/ (200 <= code /\ code < 300)

\* C16: IsOk() of a Buffer and of a Peek is true exactly when the cached
\* status code is unset (0) or satisfies 200 <= code < 300; so it is false
\* for 199, 300, 404 and 407.
C16_IsOkIffUnsetOr2xx ==
    /\ blast.op = "IsOk" => (blast.ok <=> UnsetOr2xx(buf.Code))
    /\ plast.op = "IsOk" => (plast.ok <=> UnsetOr2xx(pk.Code))
    /\ \A code \in {199, 300, 404, 407} :
          /\ (blast.op = "IsOk" /\ buf.Code = code) => ~blast.ok
          /\ (plast.op = "IsOk" /\ pk.Code = code) => ~plast.ok

\* IsOk was asked of a Buffer holding 300 and of a Peek holding 299
C16_Witness ==
    /\ blast.op = "IsOk" /\ buf.Code = 300 /\ ~blast.ok
    /\ plast.op = "IsOk" /\ pk.Code = 299 /\ plast.ok

\* ---- Peek (SpecPeek)
\* C18: between its construction and the next Reset (and between two
\* Resets) a Peek with a proceed function has evaluated it exactly once as
\* soon as Write was called, at a moment when no body chunk had been
\* forwarded yet, and not at all as long as Write was not called.
C18_ProceedEvaluatedOnce ==
    /\ plast.since.evals = IF pk.proceed # ProceedNil /\ plast.since.writes > 0
                           THEN 1 ELSE 0
    /\ plast.since.fwdAtEval = 0
    /\ (plast.op = "Write" /\ plast.since.writes > 1) =>
           pk.isChecked \/ pk.proceed = ProceedNil

\* a second Write went through a Peek whose proceed function was asked once
C18_Witness ==
    /\ pk.proceed # ProceedNil
    /\ plast.op = "Write"
    /\ plast.since.writes = 2
    /\ plast.since.fwd = 2
    /\ plast.since.evals = 1

\* C19: once proceed has returned false, the Write that asked it and every
\* later Write before the next Reset return (0, io.EOF), and the
\* underlying sink receives no body chunk.
C19_ForbiddenWritesReturnEOF ==
    plast.since.decision = "false" =>
        /\ plast.since.fwd = 0
        /\ plast.op = "Write" =>
              /\ plast.res = [n |-> 0, err |-> EOF]
              /\ recs[1].Body = plast.before.Body

\* a second Write was refused after proceed had returned false
C19_Witness ==
    /\ plast.since.decision = "false"
    /\ plast.op = "Write"
    /\ plast.since.writes = 2
    /\ plast.res = [n |-> 0, err |-> EOF]
    /\ recs[1].Body = << >>

\* C20: if proceed is nil or has returned true, a Write hands exactly its
\* bytes to the underlying sink at once, after the bytes of the earlier
\* Writes, returns what the sink returned, and HasChanged() is true.
C20_AllowedWritesPassThrough ==
    (plast.op = "Write" /\ (pk.proceed = ProceedNil \/ plast.since.decision = "true")) =>
        /\ recs[1].Body = Append(plast.before.Body, plast.arg)
        /\ recs[1].ops[Len(recs[1].ops)] = <<"Write", plast.arg>>
        /\ recs[1].Body = plast.given
        /\ plast.res = [n |-> Len(plast.arg), err |-> Nil]
        /\ Peek_HasChanged(pk)

\* two different chunks went through a Peek whose proceed returned true
C20_Witness ==
    /\ plast.op = "Write"
    /\ plast.since.decision = "true"
    /\ recs[1].Body = <<"hi", "ho">>
    /\ plast.res = [n |-> 2, err |-> Nil]
    /\ Peek_HasChanged(pk)

\* ---- Peek: flushing (SpecPeek)
\* the operations the recorder has seen since the Peek was constructed or
\* last reset
SinceMark == SubSeq(recs[1].ops, plast.since.mark + 1, Len(recs[1].ops))

\* position i of ops lies before the first body write in ops
BeforeBody(ops, i) == \A j \in 1..i : ops[j][1] # "Write"

\* the sink received the cached header pair kv before any body byte
HeaderReceived(ops, kv) ==
    \E i \in DOMAIN ops : ops[i][1] = "Header" /\ kv \in ops[i][2] /\ BeforeBody(ops, i)

\* the sink received the status code before any body byte
StatusReceived(ops, code) ==
    \E i \in DOMAIN ops : ops[i][1] = "WriteHeader" /\ ops[i][2] = code /\ BeforeBody(ops, i)

\* the last call was the first Write since construction or Reset that
\* handed bytes to the sink, on a Peek whose proceed is nil or returned true
FirstForwardedWrite ==
    /\ plast.op = "Write"
    /\ plast.since.fwd = 1
    /\ recs[1].Body # plast.before.Body
    /\ pk.proceed = ProceedNil \/ plast.since.decision = "true"

\* C21 as stated: the headers and the status cached on the Peek before
\* the first body write have reached the sink before the first body byte.
C21_CachedReachSinkBeforeBody ==
    FirstForwardedWrite =>
        /\ \A kv \in plast.was.header : HeaderReceived(SinceMark, kv)
        /\ plast.was.Code # 0 => StatusReceived(SinceMark, plast.was.Code)

\* C21 (amended): Write flushes nothing itself. At the first body byte the
\* sink has received a status exactly if FlushCode delivered one before,
\* and headers exactly if FlushHeaders ran before (each alone or through
\* FlushMissing, called on the Peek or inside proceed); a proceed that
\* calls FlushMissing on a Peek nothing was flushed from delivers all
\* cached headers and the cached status first; with no such call the body
\* byte is the first thing the sink receives.
C21_OnlyExplicitFlushBeforeBody ==
    FirstForwardedWrite =>
        /\ pk.proceed # "FlushMissing" =>
              recs[1] = rec_Write(plast.before, plast.arg)
        /\ (\E i \in DOMAIN SinceMark :
               SinceMark[i][1] = "WriteHeader" /\ BeforeBody(SinceMark, i))
              <=> pk.codeWritten
        /\ (\E i \in DOMAIN SinceMark :
               SinceMark[i][1] = "Header" /\ BeforeBody(SinceMark, i))
              <=> pk.headersWritten
        /\ (pk.proceed = "FlushMissing" /\ ~plast.was.headersWritten
                                        /\ ~plast.was.codeWritten) =>
              /\ \A kv \in plast.was.header : HeaderReceived(SinceMark, kv)
              /\ plast.was.Code # 0 => StatusReceived(SinceMark, plast.was.Code)
        /\ (~pk.headersWritten /\ ~pk.codeWritten) =>
              SinceMark = << <<"Write", plast.arg>> >>

\* a status and a header were cached, nothing was flushed, and the first
\* body chunk reached the sink
C21_Witness ==
    /\ FirstForwardedWrite
    /\ plast.was.Code = 404
    /\ plast.was.header # {}
    /\ SinceMark = << <<"Write", plast.arg>> >>
    /\ recs[1].Code = 200 /\ recs[1].HeaderMap = {}

\* the operations the recorder had seen since the Peek was constructed or
\* last reset when the last call began
SinceMarkBefore ==
    SubSeq(plast.before.ops, plast.since.mark + 1, Len(plast.before.ops))

\* ops holds an operation named op
Sent(ops, op) == \E i \in DOMAIN ops : ops[i][1] = op

\* the operations the last call performed on the recorder
Delivered == SubSeq(recs[1].ops, Len(plast.before.ops) + 1, Len(recs[1].ops))

\* C22: after body bytes went through the Peek to the sink and neither
\* headers nor a status were flushed before, FlushCode and FlushHeaders
\* both raise ErrBodyFlushedBeforeCode and leave the sink as it is.
C22_FlushAfterBodyRaises ==
    (/\ plast.op \in {"FlushCode", "FlushHeaders"}
     /\ Sent(SinceMarkBefore, "Write")
     /\ ~Sent(SinceMarkBefore, "Header")
     /\ ~Sent(SinceMarkBefore, "WriteHeader")) =>
        /\ plast.panic = ErrBodyFlushedBeforeCode
        /\ recs[1] = plast.before

\* FlushHeaders was called with a cached header after a body chunk had gone
\* to the sink
C22_Witness ==
    /\ plast.op = "FlushHeaders"
    /\ SinceMarkBefore = << <<"Write", "hi">> >>
    /\ plast.was.header # {}
    /\ plast.panic = ErrBodyFlushedBeforeCode
    /\ recs[1].HeaderMap = {}

\* C23: after FlushCode has delivered the cached status while no headers
\* were flushed, FlushHeaders raises ErrCodeFlushedBeforeHeaders and leaves
\* the sink as it is.
C23_FlushHeadersAfterCodeRaises ==
    (/\ plast.op = "FlushHeaders"
     /\ Sent(SinceMarkBefore, "WriteHeader")
     /\ ~Sent(SinceMarkBefore, "Header")) =>
        /\ plast.panic = ErrCodeFlushedBeforeHeaders
        /\ recs[1] = plast.before

\* the status 404 was flushed, a header was cached, FlushHeaders was called
C23_Witness ==
    /\ plast.op = "FlushHeaders"
    /\ SinceMarkBefore = << <<"WriteHeader", 404>> >>
    /\ plast.was.header # {}
    /\ plast.panic = ErrCodeFlushedBeforeHeaders
    /\ recs[1].HeaderMap = {}

\* C24 as stated: a call that delivers the status while cached headers are
\* not flushed, or body bytes while the cached status is not flushed,
\* raises an ordering error itself.
C24_OutOfOrderRaisesAtOnce ==
    /\ (/\ Sent(Delivered, "WriteHeader")
        /\ plast.was.header # {}
        /\ ~Sent(SinceMark, "Header")) => plast.panic # NoPanic
    /\ (/\ Sent(Delivered, "Write")
        /\ plast.was.Code # 0
        /\ ~Sent(SinceMark, "WriteHeader")) => plast.panic # NoPanic

\* C24 (amended): an out-of-order flush is reported by the late flush, not
\* by the call that broke the order. Write and FlushMissing never raise,
\* and FlushCode does not raise as long as no body bytes were forwarded,
\* whether or not cached headers are still unflushed. The error comes from
\* a FlushCode called after body bytes were forwarded without a status
\* (ErrBodyFlushedBeforeCode) and from a FlushHeaders called, with no
\* headers flushed yet, after a status was flushed
\* (ErrCodeFlushedBeforeHeaders) or else after body bytes were forwarded
\* (ErrBodyFlushedBeforeCode); the raising call delivers nothing.
C24_OrderErrorsAtLateFlush ==
    /\ plast.op \in {"Write", "FlushMissing"} => plast.panic = NoPanic
    /\ (plast.op = "FlushCode" /\ ~Sent(SinceMarkBefore, "Write")) =>
           /\ plast.panic = NoPanic
           /\ (plast.was.Code # 0 /\ ~Sent(SinceMarkBefore, "WriteHeader")) =>
                 Delivered = << <<"WriteHeader", plast.was.Code>> >>
    /\ (/\ plast.op = "FlushCode"
        /\ Sent(SinceMarkBefore, "Write")
        /\ ~Sent(SinceMarkBefore, "WriteHeader")) =>
           plast.panic = ErrBodyFlushedBeforeCode
    /\ (/\ plast.op = "FlushHeaders"
        /\ ~Sent(SinceMarkBefore, "Header")
        /\ Sent(SinceMarkBefore, "WriteHeader")) =>
           plast.panic = ErrCodeFlushedBeforeHeaders
    /\ (/\ plast.op = "FlushHeaders"
        /\ ~Sent(SinceMarkBefore, "Header")
        /\ ~Sent(SinceMarkBefore, "WriteHeader")
        /\ Sent(SinceMarkBefore, "Write")) =>
           plast.panic = ErrBodyFlushedBeforeCode
    /\ plast.panic # NoPanic => Delivered = << >>

\* FlushCode delivered the status while a cached header was unflushed, and
\* returned
C24_Witness ==
    /\ plast.op = "FlushCode"
    /\ plast.was.header # {}
    /\ SinceMark = << <<"WriteHeader", 404>> >>
    /\ plast.panic = NoPanic

\* C25: Reset leaves the Peek as NewPeek over the same sink and proceed
\* function would create it (status 0, no headers, HasChanged() false, the
\* three latches and the proceed decision cleared) and performs no
\* operation on the sink; after it the first Write evaluates proceed again
\* and headers and status can be flushed again.
C25_ResetRestoresFreshPeek ==
    /\ plast.op = "Reset" =>
          /\ pk = NewPeek(plast.was.ResponseWriter, plast.was.proceed)
          /\ pk.Code = 0 /\ pk.header = {} /\ ~Peek_HasChanged(pk)
          /\ ~pk.codeWritten /\ ~pk.headersWritten /\ ~pk.bodyWritten
          /\ ~pk.isChecked /\ ~pk.writeForbidden
          /\ recs[1] = plast.before
    /\ (plast.op = "Write" /\ plast.since.writes = 1 /\ pk.proceed # ProceedNil) =>
          plast.since.evals = 1
    /\ (/\ plast.op \in {"FlushHeaders", "FlushMissing"}
        /\ SinceMarkBefore = << >>) => Sent(Delivered, "Header")
    /\ (/\ plast.op \in {"FlushCode", "FlushMissing"}
        /\ SinceMarkBefore = << >>
        /\ plast.was.Code # 0) => Sent(Delivered, "WriteHeader")

\* a Peek that had refused a Write was reset
C25_Witness ==
    /\ plast.op = "Reset"
    /\ plast.was.isChecked /\ plast.was.writeForbidden
    /\ plast.was.Code = 404 /\ plast.was.changed
    /\ pk = NewPeek(RecRef(1), "IsOk")

\* C30: once FlushCode has delivered a status, every later FlushCode
\* before the next Reset leaves the sink as it is, also when another
\* status was cached in between; once FlushHeaders has run, every later
\* FlushHeaders before the next Reset leaves the sink as it is.
C30_FlushesAreOneShot ==
    /\ (plast.op = "FlushCode" /\ Sent(SinceMarkBefore, "WriteHeader")) =>
          /\ recs[1] = plast.before
          /\ plast.panic = NoPanic
    /\ (plast.op = "FlushHeaders" /\ Sent(SinceMarkBefore, "Header")) =>
          /\ recs[1] = plast.before
          /\ plast.panic = NoPanic

\* 201 was flushed, 404 was cached, and FlushCode was called again
C30_Witness ==
    /\ plast.op = "FlushCode"
    /\ SinceMarkBefore = << <<"WriteHeader", 201>> >>
    /\ plast.was.Code = 404
    /\ recs[1] = plast.before
    /\ recs[1].Code = 201

\* ---- EscapeHTML (SpecEscape)
\* the bytes of a sequence of chunks, in order
RECURSIVE Concat(_)
Concat(chunks) == IF chunks = << >> THEN << >> ELSE Head(chunks) \o Concat(Tail(chunks))

\* b with each byte of & ' " < > replaced by the bytes of its entity
RECURSIVE Escaped(_)
Escaped(b) ==
    IF b = << >> THEN << >>
    ELSE (CASE Head(b) = 38 -> ampRepl
            [] Head(b) = 39 -> sgQuoteRepl
            [] Head(b) = 34 -> dblQuoteRepl
            [] Head(b) = 60 -> ltQuoteRepl
            [] Head(b) = 62 -> gtQuoteRepl
            [] OTHER        -> <<Head(b)>>) \o Escaped(Tail(b))

\* C26: the bytes the sink receives from a Write through EscapeHTML,
\* concatenated in order, are the bytes written with each & ' " < >
\* replaced by &amp; &#39; &#34; &lt; &gt; and every other byte, also of
\* multi-byte and of invalid UTF-8, unchanged.
C26_EscapesFiveBytesOnly ==
    elast.op = "Write" =>
        Concat(recs[1].Body) = Concat(elast.before.Body) \o Escaped(elast.arg)

\* a lead byte without its continuation, then <, then an invalid byte
C26_Witness ==
    /\ elast.op = "Write"
    /\ elast.arg = <<195, 60, 255>>
    /\ Concat(recs[1].Body) = <<195, 38, 108, 116, 59, 255>>

\* ---- Context and SetContext of the wrappers (SpecWrapped)
\* the last carrier call went through a wrapper
Through == "via" \in DOMAIN last

\* the slot the carrier c keeps for values of type ty
Slot(c, ty) == IF ty = PtrUserIP THEN c.userIP ELSE c.err

\* C27: SetContext through a Buffer, a Peek or an EscapeHTML around a
\* carrier puts the value into the slot of the carrier, Context through it
\* returns what the slot of the carrier holds (and the sink of the carrier
\* for a *http.ResponseWriter), the wrapper is left as it was constructed,
\* and a value set through a wrapper is what a Context call on the carrier
\* itself returns next.
C27_WrappersForwardContext ==
    /\ [](Through =>
            /\ last.w = WrapperAround(last.via, CcRef)
            /\ (last.op = "SetContext" /\ last.panic = NoPanic) =>
                  Slot(cc, last.type) = last.val
            /\ (last.op = "Context" /\ last.type \in {PtrUserIP, PtrError}) =>
                  /\ last.panic = NoPanic
                  /\ last.found <=> Slot(cc, last.type) # Nil
                  /\ last.found => last.out = Slot(cc, last.type)
            /\ (last.op = "Context" /\ last.type = PtrResponseWriter) =>
                  last.found /\ last.out = ccSink)
    /\ [][(/\ Through /\ last.op = "SetContext" /\ last.panic = NoPanic
           /\ last.val # Nil
           /\ ~Through' /\ last'.op = "Context" /\ last'.type = last.type) =>
             (last'.found /\ last'.out = last.val)]_vars

\* an IP address was set through a Buffer around a carrier that held an error
C27_Witness ==
    /\ Through /\ last.via = "Buffer"
    /\ last.op = "SetContext" /\ last.val = "10.0.0.2"
    /\ cc.userIP = "10.0.0.2" /\ cc.err = "EOF"

\* ---- tracing (Spec)
\* New was called while DEBUG was set
BuiltWithDebug == main = "built" /\ wrapper # << >> /\ h = New(wrapper, TRUE)

\* the wrappers that run: all of them, or those up to the first stopper
Runners(ws) ==
    IF Stoppers(ws) = {} THEN ws ELSE SubSeq(ws, 1, FirstStopper(ws))

\* the events DEBUGGER received for request r with the role Wrapper
WrapperEvents(r) == SelectSeq(debugLog[r], LAMBDA e : e.Role = asWrapper)

\* one event of role Wrapper for each wrapper of ws, in the order of ws
EventsOf(ws) == [i \in 1..Len(ws) |-> [Object |-> ws[i], Role |-> asWrapper]]

\* C28: in a chain built while DEBUG was set, a request makes one event of
\* role Wrapper for each wrapper that runs, carrying that wrapper, in the
\* order of the chain; the event of a wrapper is there before the wrapper
\* writes; the wrappers behind the first one that does not call next make
\* no event.
C28_WrapperEventsInChainOrder ==
    \A r \in Requests :
        (Served(r) /\ BuiltWithDebug) =>
            /\ IsPrefix(WrapperEvents(r), EventsOf(Runners(wrapper)))
            /\ Len(recs[r].Body) <= Len(WrapperEvents(r))
            /\ Len(WrapperEvents(r)) <= Len(recs[r].Body) + 1
            /\ reqs[r].st = "done" => WrapperEvents(r) = EventsOf(Runners(wrapper))

\* three wrappers, the second stops the chain: two events of role Wrapper
C28_Witness ==
    \E r \in Requests :
        /\ reqs[r].st = "done" /\ BuiltWithDebug
        /\ Len(wrapper) = 3 /\ Stoppers(wrapper) # {} /\ FirstStopper(wrapper) = 2
        /\ wrapper[1].kind = "NextHandlerFunc"
        /\ Len(WrapperEvents(r)) = 2
        /\ Len(debugLog[r]) > 2

\* the events a request served by handler hh makes
RECURSIVE Trace(_)
Trace(hh) ==
    CASE hh.t = "debug"         -> <<[Object |-> hh.Object, Role |-> hh.Role]>> \o Trace(hh.Handler)
      [] hh.t = "fn"            -> Trace(CallNextHandlerFunc(hh.f, hh.next))
      [] hh.t = "write.Wrap"    -> Trace(hh.next)
      [] hh.t = "ServeHTTPNext" -> Trace(hh.next)
      [] OTHER                  -> << >>

\* C29: what a request reports is fixed by the handler New returned: the
\* handler stays as built, a request under way has reported a prefix of
\* the events of that handler and a finished one all of them, whatever
\* value DEBUG has had since New returned.
C29_TracingFixedAtBuild ==
    /\ [](\A r \in Requests :
            Served(r) =>
                /\ IsPrefix(debugLog[r], Trace(h))
                /\ reqs[r].st = "done" => debugLog[r] = Trace(h))
    /\ [][main = "built" => h' = h]_vars

\* two requests, one coming in with DEBUG set and one with DEBUG cleared,
\* reported the same events
C29_Witness ==
    /\ reqs[1].st = "done" /\ reqs[2].st = "done"
    /\ reqs[1].flag # reqs[2].flag
    /\ debugLog[1] = debugLog[2]
    /\ debugLog[1] # << >>

\* ---- more on the Peek (SpecPeek)
\* the operations FlushMissing owes the sink for the Peek p: the cached
\* headers unless they were flushed, then the cached status if one is set
Missing(p) ==
    (IF p.headersWritten THEN << >> ELSE << <<"Header", p.header>> >>)
    \o (IF p.Code = 0 THEN << >> ELSE << <<"WriteHeader", p.Code>> >>)

\* C31: FlushMissing never panics, neither called directly nor from
\* proceed; when neither body nor status has reached the sink it hands
\* the sink the cached headers not flushed yet and then the cached status
\* if one is set; when body or status has reached the sink it does
\* nothing to the sink and to the Peek, also with headers never flushed.
C31_FlushMissingNeverRaises ==
    /\ plast.op = "FlushMissing" =>
         /\ plast.panic = NoPanic
         /\ IF plast.was.bodyWritten \/ plast.was.codeWritten
            THEN recs[1] = plast.before /\ pk = plast.was
            ELSE /\ recs[1].ops = plast.before.ops \o Missing(plast.was)
                 /\ pk.headersWritten
                 /\ pk.codeWritten <=> plast.was.Code # 0
    /\ (plast.op = "Write" /\ plast.was.proceed = "FlushMissing") =>
         plast.panic = NoPanic

\* FlushMissing delivered two cached headers and then the status 404
C31_Witness ==
    /\ plast.op = "FlushMissing"
    /\ Cardinality(plast.was.header) = 2
    /\ plast.was.Code = 404
    /\ recs[1].ops = << <<"Header", plast.was.header>>, <<"WriteHeader", 404>> >>
    /\ recs[1].HeaderMap = plast.was.header /\ recs[1].Code = 404

\* ---- FlushHeaders of the Buffer and of the Peek (SpecBuffer, SpecPeek)
\* the headers of a sink that held before, after the cached headers were
\* added to it: the cached keys replaced, the other keys as they were
Merged(before, cached) ==
    {kv \in before : \A c \in cached : c[1] # kv[1]} \cup cached

\* C32: FlushHeaders of a Buffer, and FlushHeaders of a Peek that has to
\* flush, adds the cached headers to the headers of the sink, replacing the
\* values of the cached keys and leaving the other keys alone, and removes
\* them from the wrapper: none of the flushed headers is cached afterwards.
C32_FlushHeadersMovesHeaders ==
    [][/\ (blast'.op = "FlushHeaders" /\ blast'.n = blast.n + 1) =>
            /\ recs'[1].HeaderMap = Merged(recs[1].HeaderMap, buf.header)
            /\ buf'.header \cap buf.header = {}
       /\ (/\ plast'.op = "FlushHeaders" /\ plast'.n = plast.n + 1
           /\ plast'.panic = NoPanic /\ ~pk.headersWritten) =>
            /\ recs'[1].HeaderMap = Merged(recs[1].HeaderMap, pk.header)
            /\ pk'.header \cap pk.header = {}]_vars

\* ---- empty slots (SpecCarrier)
\* C33: Context for *userIP or *error on a carrier whose slot of that type
\* holds nil, because it was never set or because nil was set, returns
\* false, leaves the value the pointer points to as it was, and does not
\* panic.
C33_EmptySlotNotFound ==
    (/\ last.op = "Context" /\ last.type \in {PtrUserIP, PtrError}
     /\ Slot(cc, last.type) = Nil) =>
        /\ ~last.found
        /\ last.out = last.val
        /\ last.panic = NoPanic

\* the caller's variable held an address, the slot holds nil while the
\* other slot was set: Context left the address in the variable
C33_Witness ==
    /\ last.op = "Context" /\ last.type = PtrUserIP
    /\ "via" \notin DOMAIN last
    /\ last.val = "10.0.0.2" /\ last.out = "10.0.0.2" /\ ~last.found
    /\ cc.userIP = Nil /\ cc.err = "EOF"

\* ---- FlushAll twice (SpecBuffer)
\* what FlushAll owes the sink for the Buffer bf: the cached headers, the
\* cached status if one is set, the buffered body
Owed(bf) ==
    << <<"Header", bf.header>> >>
    \o (IF bf.Code = 0 THEN << >> ELSE << <<"WriteHeader", bf.Code>> >>)
    \o << <<"Write", bf.Buffer>> >>

\* C34: FlushAll leaves the Buffer as it was (cached status, buffered
\* body, changed flag, cached headers), and a FlushAll that follows a
\* FlushAll hands the sink the cached status and the whole body once more.
C34_FlushAllDoesNotConsume ==
    [][(blast'.op = "FlushAll" /\ blast'.n = blast.n + 1) =>
          /\ buf' = buf
          /\ (blast.op = "FlushAll" /\ buf.changed) =>
                /\ recs'[1].ops = recs[1].ops \o Owed(buf)
                /\ recs'[1].Body = Append(recs[1].Body, buf.Buffer)
                /\ Len(recs[1].ops) >= Len(Owed(buf))
                /\ SubSeq(recs[1].ops, Len(recs[1].ops) - Len(Owed(buf)) + 1,
                          Len(recs[1].ops)) = Owed(buf)]_vars

\* status 404 and the body "hi" were delivered twice by two FlushAll
C34_Witness ==
    /\ blast.op = "FlushAll" /\ blast.n = 4
    /\ buf.Code = 404 /\ buf.Buffer = "hi" /\ buf.changed
    /\ recs[1].Body = <<"hi", "hi">>
    /\ recs[1].ops = Owed(buf) \o Owed(buf)

\* ---- the helpers on sink wrappers (SpecReclaimThrough)
\* C35: ReclaimResponseWriter, Flush, Hijack and CloseNotify called on a
\* Buffer, a Peek or an EscapeHTML around a sink that is no carrier panic
\* and call no capability; around a carrier ReclaimResponseWriter returns
\* the sink the carrier wraps, the other helpers call the capability of
\* that sink if it has it, and the wrapper with what it holds back and the
\* recorder are left as they were.
C35_HelpersOnSinkWrappers ==
    "via" \in DOMAIN rlast =>
        /\ rlast.held = Holding(rlast.via, rlast.rw)
        /\ recs[1] = NewRecorder
        /\ ~IsContexter(rlast.rw) =>
              /\ rlast.panic = ErrNotContexter
              /\ rlast.invoked = << >> /\ ~rlast.ok
        /\ IsContexter(rlast.rw) =>
              LET raw == CarrierAt(rlast.rw).ResponseWriter IN
              /\ rlast.panic = NoPanic
              /\ rlast.op = "ReclaimResponseWriter" => rlast.w = raw
              /\ rlast.op # "ReclaimResponseWriter" =>
                    /\ rlast.ok <=> HasCapability(rlast.op, raw)
                    /\ rlast.ok => rlast.invoked = << [m |-> rlast.op, on |-> raw] >>
                    /\ ~rlast.ok => rlast.invoked = << >>

\* Flush on a Buffer that holds a body, around a carrier around a flushing
\* sink, called Flush of that sink
C35_Witness ==
    /\ "via" \in DOMAIN rlast /\ rlast.via = "Buffer"
    /\ rlast.op = "Flush" /\ rlast.ok
    /\ IsContexter(rlast.rw)
    /\ rlast.held.Buffer = "hi"
    /\ capLog # << >> /\ capLog[Len(capLog)] = [m |-> "Flush", on |-> FlushingRW]

\* ---- the prototype carrier and the requests (SpecProto)
\* what the middlewares can write for a request from addr: the error or
\* the address ipfromRequest finds, the address of an empty slot, DONE
OwnBodies(addr) ==
    { ipfromRequest(addr).err, IPString(ipfromRequest(addr).ip) \o "\n",
      IPString(Nil) \o "\n", "DONE" } \ {Nil}

\* C36: whatever start-up validation stored in the prototype carrier, the
\* carrier of a request holds in its slots nothing but nil and what was
\* derived from that request, and the recorder of the request receives
\* nothing but what follows from that request: the values of the prototype
\* reach neither.
C36_PrototypeValuesStayOut ==
    \A r \in Requests :
        /\ \A k \in DOMAIN ctxs[r] :
              /\ ctxs[r][k].userIP \in {Nil, ipfromRequest(reqs[r].addr).ip}
              /\ ctxs[r][k].err \in {Nil, ipfromRequest(reqs[r].addr).err}
        /\ \A i \in DOMAIN recs[r].Body : recs[r].Body[i] \in OwnBodies(reqs[r].addr)
        /\ recs[r].Code \in {200, 500}
        /\ recs[r].Code = 500 => ipfromRequest(reqs[r].addr).err # Nil

\* the prototype holds a sample address and a sample error; a request
\* served by handleError and app found both slots empty
C36_Witness ==
    \E r \in Requests :
        /\ proto.userIP = "10.0.0.2" /\ proto.err = "EOF"
        /\ wrapper = <<handleError, app>>
        /\ reqs[r].st = "done"
        /\ recs[r].Body = <<"<nil>\n", "DONE">>
        /\ recs[r].Code = 200

\* ---- EscapeHTML, write after write (SpecEscape)
\* C37: the bytes the sink has received after the Writes through
\* EscapeHTML are the bytes it receives from one Write of all the bytes
\* written, wherever the bytes were split, also between the two bytes of a
\* character.
C37_WritesConcatenate ==
    elast.op = "Write" =>
        Concat(recs[1].Body) =
            Concat(EscapeHTML_Write(EscapeHTML(RecRef(1)), NewRecorder, elast.given).rec.Body)

\* e with acute accent and <, written as 0xC3 and then 0xA9 <
C37_Witness ==
    /\ elast.op = "Write" /\ elast.n = 2
    /\ elast.arg = <<169, 60>>
    /\ elast.given = <<195, 169, 60>>
    /\ Concat(recs[1].Body) = <<195, 169, 38, 108, 116, 59>>

\* ---- refused writes (SpecPeek)
\* since the Peek was constructed or reset, Write was called and every
\* call was refused
OnlyRefused == plast.since.writes > 0 /\ plast.since.fwd = 0

\* C38: a refused Write (it returned 0, io.EOF) leaves the changed flag,
\* the latches codeWritten, headersWritten and bodyWritten and the sink as
\* they were; and when every Write so far was refused, FlushHeaders,
\* FlushCode and FlushMissing raise no ErrBodyFlushedBeforeCode and deliver
\* what they owe: FlushHeaders the cached headers unless the status went
\* out first, FlushCode a cached status, FlushMissing both.
C38_RefusedWriteLatchesNothing ==
    /\ (plast.op = "Write" /\ plast.res.err = EOF) =>
          /\ plast.res.n = 0
          /\ pk.changed = plast.was.changed
          /\ pk.codeWritten = plast.was.codeWritten
          /\ pk.headersWritten = plast.was.headersWritten
          /\ pk.bodyWritten = plast.was.bodyWritten
          /\ recs[1] = plast.before
    /\ OnlyRefused =>
          /\ ~pk.bodyWritten
          /\ plast.panic # ErrBodyFlushedBeforeCode
          /\ (plast.op = "FlushCode" /\ plast.was.Code # 0 /\ ~plast.was.codeWritten) =>
                /\ plast.panic = NoPanic
                /\ recs[1].ops = Append(plast.before.ops, <<"WriteHeader", plast.was.Code>>)
          /\ (/\ plast.op = "FlushHeaders"
              /\ ~plast.was.headersWritten /\ ~plast.was.codeWritten) =>
                /\ plast.panic = NoPanic
                /\ recs[1].ops = Append(plast.before.ops, <<"Header", plast.was.header>>)
          /\ (plast.op = "FlushMissing" /\ ~plast.was.codeWritten) =>
                /\ plast.panic = NoPanic
                /\ recs[1].ops = plast.before.ops \o Missing(plast.was)

\* proceed returned false for the status 404; after two refused Writes
\* FlushMissing delivered the headers and the status
C38_Witness ==
    /\ plast.op = "FlushMissing" /\ plast.panic = NoPanic
    /\ plast.since.writes = 2 /\ plast.since.fwd = 0
    /\ pk.proceed = "IsOk" /\ pk.writeForbidden
    /\ recs[1].ops = << <<"Header", {}>>, <<"WriteHeader", 404>> >>
    /\ recs[1].Body = << >>

\* ---- FlushCode with no status cached (SpecPeek)
\* C39: FlushCode on a Peek with no status cached and no body written
\* leaves the sink and the Peek as they were, codeWritten included; a
\* FlushHeaders right after it raises no ErrCodeFlushedBeforeHeaders; the
\* status is latched only once a status went to the sink, so a status
\* cached later is delivered by the FlushCode that follows.
C39_EmptyFlushCodeLatchesNothing ==
    /\ (plast.op = "FlushCode" /\ plast.was.Code = 0 /\ ~plast.was.bodyWritten) =>
          /\ plast.panic = NoPanic
          /\ recs[1] = plast.before
          /\ pk = plast.was
          /\ ~pk.codeWritten
    /\ (/\ plast.op = "FlushHeaders" /\ plast.prev = "FlushCode"
        /\ plast.was.Code = 0) =>
          plast.panic # ErrCodeFlushedBeforeHeaders
    /\ pk.codeWritten =>
          \E i \in DOMAIN recs[1].ops :
              i > plast.since.mark /\ recs[1].ops[i][1] = "WriteHeader"
    /\ (/\ plast.op = "FlushCode" /\ plast.was.Code # 0
        /\ ~plast.was.codeWritten /\ ~plast.was.bodyWritten) =>
          /\ plast.panic = NoPanic
          /\ recs[1].ops = Append(plast.before.ops, <<"WriteHeader", plast.was.Code>>)
          /\ pk.codeWritten

\* FlushCode with nothing cached, then FlushHeaders: the headers went out
C39_Witness ==
    /\ plast.op = "FlushHeaders" /\ plast.prev = "FlushCode"
    /\ plast.was.Code = 0 /\ plast.was.header # {}
    /\ ~plast.was.headersWritten
    /\ plast.panic = NoPanic
    /\ recs[1].ops = << <<"Header", plast.was.header>> >>

\* ---- tracing and the response (Spec)
\* what a wrapper does to the sink, whatever DEBUG was when it was made:
\* write and the adapters around write set Content-Type and write their
\* string, writeStop writes its string
Effect(w) ==
    IF w.kind = "writeStop"
    THEN << <<"Write", Token(w)>> >>
    ELSE << <<"Header.Set", "Content-Type", "text/plain">>, <<"Write", Token(w)>> >>

\* the operations the sink sees from the wrappers ws, one after the other
RECURSIVE Effects(_)
Effects(ws) == IF ws = << >> THEN << >> ELSE Effect(Head(ws)) \o Effects(Tail(ws))

\* C40: the header, status and body operations the recorder of a request
\* sees are those of the wrappers that run, in chain order, and do not
\* depend on whether DEBUG was set when the adapters were made or when New
\* was called: a chain built with tracing and the chain of the same
\* wrappers built without send the sink the same operations.
C40_TracingLeavesResponseAlone ==
    \A r \in Requests :
        Served(r) =>
            /\ IsPrefix(recs[r].ops, Effects(Runners(wrapper)))
            /\ reqs[r].st = "done" => recs[r].ops = Effects(Runners(wrapper))

\* a traced chain of three wrappers, adapters made with DEBUG set among
\* them, reported five events and sent the sink what the wrappers send
C40_Witness ==
    \E r \in Requests :
        /\ reqs[r].st = "done" /\ BuiltWithDebug
        /\ Len(wrapper) = 3 /\ Stoppers(wrapper) = {3}
        /\ wrapper[1] = NextHandler(write("a"), TRUE)
        /\ wrapper[3] = Handler(write("b"), TRUE)
        /\ Len(debugLog[r]) >= 5
        /\ recs[r].ops = Effects(wrapper)
        /\ recs[r].Body = <<"a", Token(wrapper[2]), "b">>

====
